---- MODULE Spec2Model ----
\* Session lifecycle and scoring engine of the CAT mock test portal
\* (src/app.py, with src/vercel_app_improved.py as the serverless variant).
\*
\* Time is counted in clock ticks, Res ticks to the second, so that the
\* truncation int(elapsed.total_seconds()) is visible.  Strings whose
\* characters matter (answers) are sequences of one-character strings.
\* Session ids stand for uuid4 values: 1, 2, 3, ... in order of creation.
EXTENDS Integers, Sequences, FiniteSets, Bags, TLC

VARIABLES
    active_sessions,  \* app.py:61   the live store: session id -> session dict
    nextId,           \* the next uuid4 value start_test will draw
    now,              \* datetime.now(), in ticks
    nTicks,           \* how often the clock has advanced
    nOps,             \* how many requests have been served
    sessions_file,    \* app.py:65   content of user_data/active_sessions.json
    excel,            \* app.py:190  username -> (sheet name -> rows) of <user>_progress.xlsx
    tasks,            \* bag of armed auto_save_session tasks, [sid, wake]
    last,             \* the response to the last request
    trail             \* history: per live session, its start / pause / resume
                      \* requests so far, each <<request, time>>

vars == <<active_sessions, nextId, now, nTicks, nOps, sessions_file, excel,
          tasks, last, trail>>

--------------------------------------------------------------------------
\* Bounds of the model

MaxSessions == 3
MaxTicks == 2
MaxOps == 4
MaxLen == 2
Res == 2

--------------------------------------------------------------------------
\* Program constants

TotalTime == 7200
AutoSaveInterval == 30
StaleAge == 24 * 3600

MCQ == "Multiple Choice Question"
TITA == "TITA"

--------------------------------------------------------------------------
\* Inputs

Users == {"u1", "u2"}
TestNames == {"T1", "T2"}
QuestionIds == {<<"VARC", 1>>, <<"DILR", 1>>, <<"QA", 1>>}
SessionIds == 1..MaxSessions
BadSessionId == MaxSessions + 1
Chars == {"A", "a", " "}
TickSteps == {1, StaleAge * Res}

\* All strings over Chars of length at most n
RECURSIVE StrsUpTo(_)
StrsUpTo(n) ==
    IF n = 0 THEN {<< >>}
    ELSE LET shorter == StrsUpTo(n - 1)
         IN  shorter \cup {Append(s, c) : s \in {t \in shorter : Len(t) = n - 1}, c \in Chars}

\* data/full_data.json as load_test_data returns it: a list of tests, each
\* with its sections in order and, per section, the qa entries of its
\* question groups.
Catalogue ==
    << [name |-> "T1",
        data |-> << [section |-> "VARC",
                     qa_list |-> << [question_num |-> 1, question_type |-> MCQ, answer |-> <<"A">>] >>],
                    [section |-> "DILR", qa_list |-> << >>],
                    [section |-> "QA",
                     qa_list |-> << [question_num |-> 1, question_type |-> TITA, answer |-> <<"a">>] >>] >>],
       [name |-> "T2",
        data |-> << [section |-> "VARC",
                     qa_list |-> << [question_num |-> 1, question_type |-> MCQ, answer |-> <<"a">>] >>],
                    [section |-> "DILR",
                     qa_list |-> << [question_num |-> 1, question_type |-> TITA, answer |-> <<"A", "a">>] >>],
                    [section |-> "QA",
                     qa_list |-> << [question_num |-> 1, question_type |-> MCQ, answer |-> <<"A">>] >>] >>],
       [name |-> "T3",
        data |-> << [section |-> "VARC",
                     qa_list |-> << [question_num |-> 1, question_type |-> MCQ, answer |-> <<"A">>] >>],
                    [section |-> "DILR",
                     qa_list |-> << [question_num |-> 1, question_type |-> MCQ, answer |-> <<"a">>] >>],
                    [section |-> "QA",
                     qa_list |-> << [question_num |-> 1, question_type |-> TITA, answer |-> <<"A">>] >>] >>] >>

load_test_data == Catalogue

--------------------------------------------------------------------------
\* Helpers

Max(a, b) == IF a >= b THEN a ELSE b

MinOf(S) == CHOOSE x \in S : \A y \in S : x <= y

\* int(x) of a quotient num / den with den > 0: truncation toward zero
IntDiv(num, den) == IF num >= 0 THEN num \div den ELSE -((-num) \div den)

\* int(elapsed.total_seconds()) for elapsed = t1 - t0 in ticks
elapsed_seconds(t1, t0) == IntDiv(t1 - t0, Res)

\* datetime.isoformat() and datetime.fromisoformat()
isoformat(t) == <<"iso", t>>
fromisoformat(s) == s[2]

\* str.lower() and str.strip() on a string of Chars
lower_char(c) == IF c = "A" THEN "a" ELSE c
lower(str) == [i \in 1..Len(str) |-> lower_char(str[i])]

RECURSIVE lstrip(_)
lstrip(str) == IF str # << >> /\ Head(str) = " " THEN lstrip(Tail(str)) ELSE str

RECURSIVE rstrip(_)
rstrip(str) ==
    IF str # << >> /\ str[Len(str)] = " " THEN rstrip(SubSeq(str, 1, Len(str) - 1)) ELSE str

strip(str) == rstrip(lstrip(str))

\* strftime("%Y%m%d_%H%M%S"): the clock cut to whole seconds
sheet_stamp(t) == t \div Res

Restrict(f, S) == [x \in S |-> f[x]]

\* dict.get(key, default)
Get(d, k, default) == IF k \in DOMAIN d THEN d[k] ELSE default

\* x in list
InList(x, l) == \E i \in 1..Len(l) : l[i] = x

\* list.remove(x): drops the first occurrence
RemoveFirst(l, x) ==
    LET i == MinOf({j \in 1..Len(l) : l[j] = x})
    IN  SubSeq(l, 1, i - 1) \o SubSeq(l, i + 1, Len(l))

\* The empty dict
EmptyDict == [k \in {} |-> 0]

\* d with key k set to v, and d without key k
\* Mutant of DictSet: a key that is present keeps its value
DictSet_keeps_first(d, k, v) ==
    [x \in DOMAIN d \cup {k} |-> IF x \in DOMAIN d THEN d[x] ELSE v]

DictSet(d, k, v) == [x \in (DOMAIN d) \cup {k} |-> IF x = k THEN v ELSE d[x]]
DictPop(d, k) == [x \in (DOMAIN d) \ {k} |-> d[x]]

\* The sum of f over the set S
RECURSIVE SumOver(_, _)
SumOver(f, S) ==
    IF S = {} THEN 0
    ELSE LET x == CHOOSE y \in S : TRUE IN f[x] + SumOver(f, S \ {x})

--------------------------------------------------------------------------
\* Scoring (save_session_data, app.py:177-277)

\* f"{section_name}_{question_num}"
question_id_of(section_name, question_num) == <<section_name, question_num>>

\* The qa entries of one section, as all_questions entries
section_questions(sec) ==
    [i \in 1..Len(sec.qa_list) |->
        [question_id |-> question_id_of(sec.section, sec.qa_list[i].question_num),
         section |-> sec.section,
         question_type |-> sec.qa_list[i].question_type,
         correct_answer |-> sec.qa_list[i].answer,
         question_num |-> sec.qa_list[i].question_num]]

RECURSIVE flatten_sections(_)
flatten_sections(data) ==
    IF data = << >> THEN << >>
    ELSE section_questions(Head(data)) \o flatten_sections(Tail(data))

\* all_questions of the first catalogue test named test_name; empty when
\* there is none
all_questions(test_name) ==
    LET hits == {i \in 1..Len(load_test_data) : load_test_data[i].name = test_name}
    IN  IF hits = {} THEN << >>
        ELSE flatten_sections(load_test_data[MinOf(hits)].data)

\* The CAT marking scheme as save_session_data applies it
calculate_marks(question_type, user_answer, correct_answer) ==
    IF user_answer # << >>
    THEN IF user_answer = correct_answer THEN 3
         ELSE IF question_type = MCQ THEN -1 ELSE 0
    ELSE 0

RECURSIVE SumMarks(_, _, _)
SumMarks(qs, answers, n) ==
    IF n = 0 THEN 0
    ELSE SumMarks(qs, answers, n - 1)
         + calculate_marks(qs[n].question_type,
                           Get(answers, qs[n].question_id, [answer |-> << >>]).answer,
                           qs[n].correct_answer)

\* One row per entry of qs, as save_session_data appends them to data
rows_for(session, t, qs) ==
    [i \in 1..Len(qs) |->
       LET q == qs[i]
           attempted == q.question_id \in DOMAIN session.answers
           user_answer == IF attempted THEN session.answers[q.question_id].answer ELSE << >>
       IN  [Question_ID |-> q.question_id,
            Section |-> q.section,
            Question_Number |-> q.question_num,
            Question_Type |-> q.question_type,
            User_Answer |-> user_answer,
            Correct_Answer |-> q.correct_answer,
            Marks_Obtained |-> calculate_marks(q.question_type, user_answer, q.correct_answer),
            Time_Spent |-> IF attempted THEN session.answers[q.question_id].time_spent ELSE 0,
            Bookmark_Status |-> InList(q.question_id, session.bookmarks),
            Flag_Color |-> Get(session.flags, q.question_id, "none"),
            Attempt_Timestamp |-> IF attempted THEN session.answers[q.question_id].timestamp
                                  ELSE isoformat(t),
            Test_Name |-> session.test_name,
            Total_Score |-> IF q.question_id = qs[Len(qs)].question_id
                            THEN <<SumMarks(qs, session.answers, i)>> ELSE << >>]]

\* Mutant of session_rows: rows for the answered questions only
RECURSIVE answered_only(_, _)
answered_only(qs, answers) ==
    IF qs = << >> THEN << >>
    ELSE IF Head(qs).question_id \in DOMAIN answers
         THEN <<Head(qs)>> \o answered_only(Tail(qs), answers)
         ELSE answered_only(Tail(qs), answers)

session_rows_answered_only(session, t) ==
    rows_for(session, t, answered_only(all_questions(session.test_name), session.answers))

\* The list data that save_session_data builds for a session at time t:
\* every question of the session's test, answered or not
session_rows(session, t) ==
    rows_for(session, t, all_questions(session.test_name))

\* The workbook after writing sheet sheet_name for username: a new file, or
\* the existing file with the sheet added (if_sheet_exists='replace')
write_sheet(book, username, sheet_name, rows) ==
    IF username \in DOMAIN book
    THEN [book EXCEPT ![username] = DictSet(@, sheet_name, rows)]
    ELSE DictSet(book, username, DictSet(EmptyDict, sheet_name, rows))

\* save_session_data(session_id) at time t; write_ok tells whether the
\* Excel write succeeds.  Gives the workbooks afterwards and whether the
\* call raised HTTPException(500).
save_session_data(store, book, session_id, t, write_ok) ==
    IF session_id \notin DOMAIN store
    THEN [excel |-> book, raised |-> FALSE]
    ELSE LET session == store[session_id]
             data == session_rows(session, t)
         IN  IF session.username = "" \/ session.test_name = ""
             THEN [excel |-> book, raised |-> FALSE]
             ELSE IF Len(data) = 0
             THEN [excel |-> book, raised |-> FALSE]
             ELSE IF write_ok
             THEN [excel |-> write_sheet(book, session.username, sheet_stamp(t), data),
                   raised |-> FALSE]
             ELSE [excel |-> book, raised |-> TRUE]

\* save_active_sessions(): the JSON written for a store
save_active_sessions(store) ==
    [sid \in DOMAIN store |-> [store[sid] EXCEPT !.time_started = isoformat(@)]]

\* The dict start_test creates
new_session(username, test_name, t) ==
    [username |-> username,
     test_name |-> test_name,
     answers |-> EmptyDict,
     bookmarks |-> << >>,
     flags |-> EmptyDict,
     time_started |-> t,
     time_remaining |-> TotalTime,
     is_paused |-> FALSE,
     paused_at |-> -1]

\* An HTTP response: the status and the fields of the body that the
\* handlers fill in (the others are 0)
Response(status, message, session_id, time_remaining, before, after) ==
    [status |-> status, message |-> message, session_id |-> session_id,
     time_remaining |-> time_remaining, before |-> before, after |-> after]

\* Mutant of SessionNotFound: the request is answered as served
SessionNotFound_as_served == Response(200, "Session not found", 0, 0, 0, 0)

SessionNotFound == Response(404, "Session not found", 0, 0, 0, 0)

\* One armed auto_save_session task: asleep until wake
auto_save_task(sid, t) == SetToBag({[sid |-> sid, wake |-> t + AutoSaveInterval * Res]})


--------------------------------------------------------------------------
\* Session store (app.py:369-687)

\* Mutant of sessions_to_remove: every session of the user, paused or not
sessions_to_remove_paused_too(store, username) ==
    {sid \in DOMAIN store : store[sid].username = username}

\* start_test: the user's sessions that are not paused
sessions_to_remove(store, username) ==
    {sid \in DOMAIN store : store[sid].username = username /\ ~store[sid].is_paused}

\* pause_test: the session after the pause at time t
paused_session(session, t) ==
    [session EXCEPT !.time_remaining = @ - elapsed_seconds(t, session.time_started),
                    !.paused_at = t,
                    !.is_paused = TRUE]

\* Mutant of resumed_session: time_started is not reset
resumed_session_keeps_start(session, t) ==
    [session EXCEPT !.paused_at = -1, !.is_paused = FALSE]

\* resume_test: the session after the resume at time t
resumed_session(session, t) ==
    [session EXCEPT !.time_started = t, !.paused_at = -1, !.is_paused = FALSE]

\* Mutant of reported_remaining: no clamp at 0
reported_remaining_unclamped(session, t) ==
    session.time_remaining - elapsed_seconds(t, session.time_started)

\* get_session / get_active_session: the time_remaining reported at time t
reported_remaining(session, t) ==
    Max(0, session.time_remaining - elapsed_seconds(t, session.time_started))

\* Mutant of sessions_to_keep: a session of exactly 24 hours is kept
sessions_to_keep_at_24h(store, t) ==
    {sid \in DOMAIN store :
        \/ store[sid].is_paused
        \/ t - store[sid].time_started <= StaleAge * Res}

\* Mutant of sessions_to_keep: only the recent sessions are kept
sessions_to_keep_recent_only(store, t) ==
    {sid \in DOMAIN store : t - store[sid].time_started < StaleAge * Res}

\* cleanup_all_sessions: the sessions kept at time t; the age is
\* total_seconds(), not truncated
sessions_to_keep(store, t) ==
    {sid \in DOMAIN store :
        \/ store[sid].is_paused
        \/ t - store[sid].time_started < StaleAge * Res}

Init ==
    /\ active_sessions = EmptyDict
    /\ nextId = 1
    /\ now = 0
    /\ nTicks = 0
    /\ nOps = 0
    /\ sessions_file = EmptyDict
    /\ excel = EmptyDict
    /\ tasks = EmptyBag
    /\ last = Response(0, "", 0, 0, 0, 0)
    /\ trail = EmptyDict

\* The history after request op on session_id, for the sessions of store
Logged(store, session_id, op) ==
    [sid \in DOMAIN store |->
        IF sid = session_id THEN Append(Get(trail, sid, << >>), <<op, now>>) ELSE trail[sid]]

\* The clock advances
Tick(d) ==
    /\ nTicks < MaxTicks
    /\ now' = now + d
    /\ nTicks' = nTicks + 1
    /\ UNCHANGED <<active_sessions, nextId, nOps, sessions_file, excel, tasks, last, trail>>

\* A request is served: every handler below counts it
Served ==
    /\ nOps < MaxOps
    /\ nOps' = nOps + 1

\* POST /api/start-test
start_test(username, test_name) ==
    /\ Served
    /\ nextId <= MaxSessions
    /\ IF username = "" \/ test_name = ""
       THEN /\ last' = Response(400, "Username and test name are required", 0, 0, 0, 0)
            /\ UNCHANGED <<active_sessions, nextId, sessions_file, tasks, trail>>
       ELSE LET session_id == nextId
                kept == DOMAIN active_sessions \ sessions_to_remove(active_sessions, username)
                store == DictSet(Restrict(active_sessions, kept), session_id,
                                 new_session(username, test_name, now))
            IN  /\ active_sessions' = store
                /\ nextId' = nextId + 1
                /\ sessions_file' = save_active_sessions(store)
                /\ tasks' = tasks (+) auto_save_task(session_id, now)
                /\ last' = Response(200, "Test session started", session_id, TotalTime, 0, 0)
                /\ trail' = Logged(store, session_id, "start")
    /\ UNCHANGED <<now, nTicks, excel>>

\* GET /api/session/{session_id}
get_session(session_id) ==
    /\ Served
    /\ IF session_id \notin DOMAIN active_sessions
       THEN last' = SessionNotFound
       ELSE last' = Response(200, "session", 0,
                             reported_remaining(active_sessions[session_id], now), 0, 0)
    /\ UNCHANGED <<active_sessions, nextId, now, nTicks, sessions_file, excel,
                   tasks, trail>>

\* GET /api/active-session/{username}: the first session of the user that
\* is not paused, in the store's insertion order
get_active_session(username) ==
    /\ Served
    /\ LET mine == sessions_to_remove(active_sessions, username)
       IN  IF mine = {}
           THEN last' = Response(404, "No active session found", 0, 0, 0, 0)
           ELSE last' = Response(200, "active session", MinOf(mine),
                                 reported_remaining(active_sessions[MinOf(mine)], now), 0, 0)
    /\ UNCHANGED <<active_sessions, nextId, now, nTicks, sessions_file, excel,
                   tasks, trail>>

\* Mutant of answer_record: a second answer to a question keeps the
\* time_spent of the first
answer_record_keeps_time(session, question_id, answer, time_spent, t) ==
    LET qs == all_questions(session.test_name)
        hits == {i \in 1..Len(qs) : qs[i].question_id = question_id}
    IN  [answer |-> answer,
         correct_answer |-> IF hits = {} THEN << >> ELSE qs[MinOf(hits)].correct_answer,
         time_spent |-> IF question_id \in DOMAIN session.answers
                        THEN session.answers[question_id].time_spent ELSE time_spent,
         timestamp |-> isoformat(t),
         section |-> IF hits = {} THEN "" ELSE qs[MinOf(hits)].section]

\* submit_answer: the AnswerRecord stored for question_id at time t
answer_record(session, question_id, answer, time_spent, t) ==
    LET qs == all_questions(session.test_name)
        hits == {i \in 1..Len(qs) : qs[i].question_id = question_id}
    IN  [answer |-> answer,
         correct_answer |-> IF hits = {} THEN << >> ELSE qs[MinOf(hits)].correct_answer,
         time_spent |-> time_spent,
         timestamp |-> isoformat(t),
         section |-> IF hits = {} THEN "" ELSE qs[MinOf(hits)].section]

\* Mutant of submit_answer: an answer also clears the pause marker
submit_answer_resumes(session_id, question_id, answer, time_spent) ==
    /\ Served
    /\ IF session_id \notin DOMAIN active_sessions
       THEN /\ last' = SessionNotFound
            /\ UNCHANGED <<active_sessions, sessions_file>>
       ELSE LET session == active_sessions[session_id]
                store == [active_sessions EXCEPT
                             ![session_id].answers =
                                 DictSet(@, question_id,
                                         answer_record(session, question_id, answer, time_spent, now)),
                             ![session_id].is_paused = FALSE]
            IN  /\ active_sessions' = store
                /\ sessions_file' = save_active_sessions(store)
                /\ last' = Response(200, "Answer submitted successfully", 0, 0, 0, 0)
    /\ UNCHANGED <<nextId, now, nTicks, excel, tasks, trail>>

\* POST /api/submit-answer
submit_answer(session_id, question_id, answer, time_spent) ==
    /\ Served
    /\ IF session_id \notin DOMAIN active_sessions
       THEN /\ last' = SessionNotFound
            /\ UNCHANGED <<active_sessions, sessions_file>>
       ELSE LET session == active_sessions[session_id]
                store == [active_sessions EXCEPT ![session_id].answers =
                             DictSet(@, question_id,
                                     answer_record(session, question_id, answer, time_spent, now))]
            IN  /\ active_sessions' = store
                /\ sessions_file' = save_active_sessions(store)
                /\ last' = Response(200, "Answer submitted successfully", 0, 0, 0, 0)
    /\ UNCHANGED <<nextId, now, nTicks, excel, tasks, trail>>

\* Mutant of bookmarks_after: add appends without looking
bookmarks_after_always_appends(bookmarks, question_id, action) ==
    IF action = "add" THEN Append(bookmarks, question_id)
    ELSE IF action = "remove" /\ InList(question_id, bookmarks)
    THEN RemoveFirst(bookmarks, question_id)
    ELSE bookmarks

\* toggle_bookmark: the bookmark list after the request
bookmarks_after(bookmarks, question_id, action) ==
    IF action = "add"
    THEN IF ~InList(question_id, bookmarks) THEN Append(bookmarks, question_id) ELSE bookmarks
    ELSE IF action = "remove"
    THEN IF InList(question_id, bookmarks) THEN RemoveFirst(bookmarks, question_id) ELSE bookmarks
    ELSE bookmarks

\* POST /api/bookmark
toggle_bookmark(session_id, question_id, action) ==
    /\ Served
    /\ IF session_id \notin DOMAIN active_sessions
       THEN /\ last' = SessionNotFound
            /\ UNCHANGED <<active_sessions, sessions_file>>
       ELSE LET store == [active_sessions EXCEPT ![session_id].bookmarks =
                             bookmarks_after(@, question_id, action)]
            IN  /\ active_sessions' = store
                /\ sessions_file' = save_active_sessions(store)
                /\ last' = Response(200, "Bookmark " \o action \o "ed successfully", 0, 0, 0, 0)
    /\ UNCHANGED <<nextId, now, nTicks, excel, tasks, trail>>

\* Mutant of flags_after: "none" is stored like a colour
flags_after_never_removes(flags, question_id, color) ==
    DictSet(flags, question_id, color)

\* set_flag: the flag dict after the request
flags_after(flags, question_id, color) ==
    IF color = "none" THEN DictPop(flags, question_id) ELSE DictSet(flags, question_id, color)

\* POST /api/flag
set_flag(session_id, question_id, color) ==
    /\ Served
    /\ IF session_id \notin DOMAIN active_sessions
       THEN /\ last' = SessionNotFound
            /\ UNCHANGED <<active_sessions, sessions_file>>
       ELSE LET store == [active_sessions EXCEPT ![session_id].flags =
                             flags_after(@, question_id, color)]
            IN  /\ active_sessions' = store
                /\ sessions_file' = save_active_sessions(store)
                /\ last' = Response(200, "Flag updated successfully", 0, 0, 0, 0)
    /\ UNCHANGED <<nextId, now, nTicks, excel, tasks, trail>>

\* POST /api/save-session
manual_save_session(session_id, write_ok) ==
    /\ Served
    /\ IF session_id \notin DOMAIN active_sessions
       THEN /\ last' = SessionNotFound
            /\ UNCHANGED excel
       ELSE LET saved == save_session_data(active_sessions, excel, session_id, now, write_ok)
            IN  /\ excel' = saved.excel
                /\ last' = IF saved.raised
                           THEN Response(500, "Failed to save progress", 0, 0, 0, 0)
                           ELSE Response(200, "Session saved successfully", 0, 0, 0, 0)
    /\ UNCHANGED <<active_sessions, nextId, now, nTicks, sessions_file, tasks, trail>>

\* POST /api/pause-test
pause_test(session_id, write_ok) ==
    /\ Served
    /\ IF session_id \notin DOMAIN active_sessions
       THEN /\ last' = SessionNotFound
            /\ UNCHANGED <<active_sessions, sessions_file, excel, trail>>
       ELSE LET store == [active_sessions EXCEPT ![session_id] = paused_session(@, now)]
                saved == save_session_data(store, excel, session_id, now, write_ok)
            IN  /\ active_sessions' = store
                /\ excel' = saved.excel
                /\ trail' = Logged(store, session_id, "pause")
                /\ IF saved.raised
                   THEN /\ last' = Response(500, "Failed to save progress", 0, 0, 0, 0)
                        /\ UNCHANGED sessions_file
                   ELSE /\ last' = Response(200, "Test paused successfully", 0, 0, 0, 0)
                        /\ sessions_file' = save_active_sessions(store)
    /\ UNCHANGED <<nextId, now, nTicks, tasks>>

\* POST /api/resume-test
resume_test(session_id) ==
    /\ Served
    /\ IF session_id \notin DOMAIN active_sessions
       THEN /\ last' = SessionNotFound
            /\ UNCHANGED <<active_sessions, sessions_file, tasks, trail>>
       ELSE LET store == [active_sessions EXCEPT ![session_id] = resumed_session(@, now)]
            IN  /\ active_sessions' = store
                /\ sessions_file' = save_active_sessions(store)
                /\ tasks' = tasks (+) auto_save_task(session_id, now)
                /\ last' = Response(200, "Test resumed successfully", 0, 0, 0, 0)
                /\ trail' = Logged(store, session_id, "resume")
    /\ UNCHANGED <<nextId, now, nTicks, excel>>

\* Mutant of cleanup_session: the session is archived before it is removed
cleanup_session_archives(session_id) ==
    /\ Served
    /\ IF session_id \in DOMAIN active_sessions
       THEN LET store == Restrict(active_sessions, DOMAIN active_sessions \ {session_id})
            IN  /\ active_sessions' = store
                /\ sessions_file' = save_active_sessions(store)
                /\ excel' = save_session_data(active_sessions, excel, session_id, now, TRUE).excel
                /\ last' = Response(200, "Session cleaned up successfully", session_id, 0, 0, 0)
                /\ trail' = Restrict(trail, DOMAIN store)
       ELSE /\ last' = Response(200, "Session not found or already cleaned", 0, 0, 0, 0)
            /\ UNCHANGED <<active_sessions, sessions_file, excel, trail>>
    /\ UNCHANGED <<nextId, now, nTicks, tasks>>

\* POST /api/cleanup-session
cleanup_session(session_id) ==
    /\ Served
    /\ IF session_id \in DOMAIN active_sessions
       THEN LET store == Restrict(active_sessions, DOMAIN active_sessions \ {session_id})
            IN  /\ active_sessions' = store
                /\ sessions_file' = save_active_sessions(store)
                /\ last' = Response(200, "Session cleaned up successfully", session_id, 0, 0, 0)
                /\ trail' = Restrict(trail, DOMAIN store)
       ELSE /\ last' = Response(200, "Session not found or already cleaned", 0, 0, 0, 0)
            /\ UNCHANGED <<active_sessions, sessions_file, trail>>
    /\ UNCHANGED <<nextId, now, nTicks, excel, tasks>>

\* POST /api/cleanup-sessions
cleanup_all_sessions ==
    /\ Served
    /\ LET store == Restrict(active_sessions, sessions_to_keep(active_sessions, now))
       IN  /\ active_sessions' = store
           /\ sessions_file' = save_active_sessions(store)
           /\ last' = Response(200, "Cleaned up stale sessions", 0, 0,
                               Cardinality(DOMAIN active_sessions),
                               Cardinality(DOMAIN store))
           /\ trail' = Restrict(trail, DOMAIN store)
    /\ UNCHANGED <<nextId, now, nTicks, excel, tasks>>

\* Mutant of auto_save_session: the task of a session that is gone never
\* leaves its loop
auto_save_session_never_exits(task, write_ok) ==
    /\ BagIn(task, tasks)
    /\ now >= task.wake
    /\ IF task.sid \notin DOMAIN active_sessions
       THEN UNCHANGED <<tasks, excel>>
       ELSE LET saved == save_session_data(active_sessions, excel, task.sid, now, write_ok)
            IN  /\ excel' = saved.excel
                /\ tasks' = IF saved.raised
                            THEN tasks (-) SetToBag({task})
                            ELSE (tasks (-) SetToBag({task})) (+) auto_save_task(task.sid, now)
    /\ UNCHANGED <<active_sessions, nextId, now, nTicks, nOps, sessions_file, last, trail>>

\* One turn of an auto_save_session task that has slept its 30 seconds:
\* it saves and sleeps again, or ends when the session is gone or the save
\* raised
auto_save_session(task, write_ok) ==
    /\ BagIn(task, tasks)
    /\ now >= task.wake
    /\ IF task.sid \notin DOMAIN active_sessions
       THEN /\ tasks' = tasks (-) SetToBag({task})
            /\ UNCHANGED excel
       ELSE LET saved == save_session_data(active_sessions, excel, task.sid, now, write_ok)
            IN  /\ excel' = saved.excel
                /\ tasks' = IF saved.raised
                            THEN tasks (-) SetToBag({task})
                            ELSE (tasks (-) SetToBag({task})) (+) auto_save_task(task.sid, now)
    /\ UNCHANGED <<active_sessions, nextId, now, nTicks, nOps, sessions_file, last, trail>>

--------------------------------------------------------------------------
\* Specification Spec: the requests.  Every handler is served for every
\* session id, with a disk that takes every write; the content of answers,
\* bookmarks and flags is drawn from one question.  The turns of the
\* auto_save_session tasks that start_test and resume_test arm are not
\* requests and are not taken here: a turn writes the archive and re-arms
\* the task, and leaves active_sessions and the responses alone.

Next ==
    \/ \E d \in TickSteps : Tick(d)
    \/ \E u \in Users, t \in TestNames : start_test(u, t)
    \/ \E sid \in SessionIds : get_session(sid)
    \/ \E u \in Users : get_active_session(u)
    \/ \E sid \in SessionIds : submit_answer(sid, <<"VARC", 1>>, <<"A">>, 7)
    \/ \E sid \in SessionIds : toggle_bookmark(sid, <<"VARC", 1>>, "add")
    \/ \E sid \in SessionIds : set_flag(sid, <<"VARC", 1>>, "red")
    \/ \E sid \in SessionIds : manual_save_session(sid, TRUE)
    \/ \E sid \in SessionIds : pause_test(sid, TRUE)
    \/ \E sid \in SessionIds : resume_test(sid)
    \/ \E sid \in SessionIds : cleanup_session(sid)
    \/ cleanup_all_sessions

Spec == Init /\ [][Next]_vars

--------------------------------------------------------------------------
\* Specification SpecScore: scoring.  One session of u1 holds any answers
\* that submit_answer can have stored for the three question ids, each any
\* string over Chars of length at most MaxLen, and is saved.

\* The answers dict after submit_answer for every question id of given
answers_of(session, given) ==
    [q \in DOMAIN given |-> answer_record(session, q, given[q], 7, 0)]

InitScore ==
    /\ \E test_name \in TestNames \cup {"TX"}, qs \in SUBSET QuestionIds :
         \E given \in [qs -> StrsUpTo(MaxLen)] :
            LET session == new_session("u1", test_name, 0)
                store == DictSet(EmptyDict, 1,
                                 [session EXCEPT !.answers = answers_of(session, given)])
            IN  /\ active_sessions = store
                /\ sessions_file = save_active_sessions(store)
    /\ nextId = 2
    /\ now = 0
    /\ nTicks = 0
    /\ nOps = 0
    /\ excel = EmptyDict
    /\ tasks = auto_save_task(1, 0)
    /\ last = Response(200, "Answer submitted successfully", 0, 0, 0, 0)
    /\ trail = DictSet(EmptyDict, 1, <<<<"start", 0>>>>)

NextScore ==
    \/ manual_save_session(1, TRUE)
    \/ pause_test(1, TRUE)

\* get_available_tests: total_questions of the catalogue test test_name
RECURSIVE count_qa(_)
count_qa(data) ==
    IF data = << >> THEN 0 ELSE Len(Head(data).qa_list) + count_qa(Tail(data))

total_questions(test_name) ==
    LET hits == {i \in 1..Len(load_test_data) : load_test_data[i].name = test_name}
    IN  count_qa(load_test_data[MinOf(hits)].data)

\* calculate_performance_insights: a row counts as attempted, and as correct
is_attempted(user_answer) == user_answer # << >> /\ strip(user_answer) # << >>
is_correct(user_answer, correct_answer) ==
    lower(strip(user_answer)) = lower(strip(correct_answer))

SpecScore == InitScore /\ [][NextScore]_vars

--------------------------------------------------------------------------
\* Specification SpecEdit: the content of a session.  u1 has started T1 and
\* has answered, bookmarked and flagged VARC_1; from there answers,
\* bookmarks and flags are written with every input below, u1 starts
\* further tests, among them one that the catalogue does not hold, and the
\* clock advances.

UnknownTest == "TX"
Submissions == {[answer |-> <<"A">>, time_spent |-> 7], [answer |-> <<"a">>, time_spent |-> 9]}
BookmarkActions == {"add", "remove"}
Colors == {"red", "green", "none", "blue"}
MarkedIds == {<<"VARC", 1>>, <<"QA", 1>>}

InitEdit ==
    /\ LET session == new_session("u1", "T1", 0)
           store == DictSet(EmptyDict, 1,
                       [session EXCEPT
                          !.answers = DictSet(EmptyDict, <<"VARC", 1>>,
                                         answer_record(session, <<"VARC", 1>>, <<"A">>, 7, 0)),
                          !.bookmarks = <<<<"VARC", 1>>>>,
                          !.flags = DictSet(EmptyDict, <<"VARC", 1>>, "red")])
       IN  /\ active_sessions = store
           /\ sessions_file = save_active_sessions(store)
    /\ nextId = 2
    /\ now = 0
    /\ nTicks = 0
    /\ nOps = 0
    /\ excel = EmptyDict
    /\ tasks = auto_save_task(1, 0)
    /\ last = Response(200, "Flag updated successfully", 0, 0, 0, 0)
    /\ trail = DictSet(EmptyDict, 1, <<<<"start", 0>>>>)

NextEdit ==
    \/ \E d \in TickSteps : Tick(d)
    \/ \E t \in {"T2", UnknownTest} : start_test("u1", t)
    \/ \E sid \in SessionIds, q \in QuestionIds, sub \in Submissions :
          submit_answer(sid, q, sub.answer, sub.time_spent)
    \/ \E sid \in SessionIds, q \in MarkedIds, action \in BookmarkActions :
          toggle_bookmark(sid, q, action)
    \/ \E sid \in SessionIds, q \in MarkedIds, color \in Colors :
          set_flag(sid, q, color)

SpecEdit == InitEdit /\ [][NextEdit]_vars

--------------------------------------------------------------------------
\* Specification SpecFlush: the requests that change the store, and
\* get_session, together with the turns of the auto_save_session tasks, on
\* a disk that takes or refuses the write of a turn.

NextFlush ==
    \/ \E d \in TickSteps : Tick(d)
    \/ \E u \in Users, t \in TestNames : start_test(u, t)
    \/ \E sid \in SessionIds : get_session(sid)
    \/ \E sid \in SessionIds : submit_answer(sid, <<"VARC", 1>>, <<"A">>, 7)
    \/ \E sid \in SessionIds : toggle_bookmark(sid, <<"VARC", 1>>, "add")
    \/ \E sid \in SessionIds : set_flag(sid, <<"VARC", 1>>, "red")
    \/ \E sid \in SessionIds : pause_test(sid, TRUE)
    \/ \E sid \in SessionIds : resume_test(sid)
    \/ \E sid \in SessionIds : cleanup_session(sid)
    \/ cleanup_all_sessions
    \/ \E task \in BagToSet(tasks), write_ok \in BOOLEAN : auto_save_session(task, write_ok)

SpecFlush == Init /\ [][NextFlush]_vars

--------------------------------------------------------------------------
\* Specification SpecDisk: the archive.  u1 starts T1, answers, saves,
\* pauses, resumes and terminates while the auto_save_session tasks take
\* their turns, on a disk that takes or refuses each write.

NextDisk ==
    \/ \E d \in TickSteps : Tick(d)
    \/ start_test("u1", "T1")
    \/ \E sid \in SessionIds : submit_answer(sid, <<"VARC", 1>>, <<"A">>, 7)
    \/ \E sid \in SessionIds, write_ok \in BOOLEAN : manual_save_session(sid, write_ok)
    \/ \E sid \in SessionIds, write_ok \in BOOLEAN : pause_test(sid, write_ok)
    \/ \E sid \in SessionIds : resume_test(sid)
    \/ \E sid \in SessionIds : cleanup_session(sid)
    \/ \E task \in BagToSet(tasks), write_ok \in BOOLEAN : auto_save_session(task, write_ok)

SpecDisk == Init /\ [][NextDisk]_vars

\* The auto_save_session tasks armed for session sid
TasksOf(sid) == {task \in BagToSet(tasks) : task.sid = sid}

\* The tasks that sleep although their session is gone
AsleepGone == {task \in BagToSet(tasks) : task.sid \notin DOMAIN active_sessions /\ task.wake > now}

\* asyncio.sleep(30) of a task whose session is gone elapses: the clock
\* reaches the earliest such wake-up
sleep_elapses ==
    /\ AsleepGone # {}
    /\ now' = MinOf({task.wake : task \in AsleepGone})
    /\ UNCHANGED <<active_sessions, nextId, nTicks, nOps, sessions_file, excel, tasks, last, trail>>

\* One turn of a task of session sid
TurnOf(sid) == \E task \in TasksOf(sid), write_ok \in BOOLEAN : auto_save_session(task, write_ok)

\* One turn of a task whose session is gone
TurnOfGone ==
    \E task \in BagToSet(tasks), write_ok \in BOOLEAN :
        task.sid \notin DOMAIN active_sessions /\ auto_save_session(task, write_ok)

\* Specification SpecDiskLive: sessions of u1 are started, paused and
\* removed on an event loop that gives every task that is ready its turn,
\* and with a clock that does not stop while a task sleeps.
NextLive ==
    \/ \E d \in TickSteps : Tick(d)
    \/ start_test("u1", "T1")
    \/ \E sid \in SessionIds : pause_test(sid, TRUE)
    \/ \E sid \in SessionIds : cleanup_session(sid)
    \/ \E task \in BagToSet(tasks), write_ok \in BOOLEAN : auto_save_session(task, write_ok)
    \/ sleep_elapses

SpecDiskLive ==
    /\ Init
    /\ [][NextLive]_vars
    /\ WF_vars(sleep_elapses)
    /\ WF_vars(TurnOfGone)

--------------------------------------------------------------------------
\* Statistics and analysis (app.py:689-901, 1536-1575; ai_analysis.py)

MaxSaves == 3

\* k as two decimal digits
TwoDigits(k) == <<(k \div 10) % 10, k % 10>>

\* Mutant of strftime: the fields are not padded to two digits
Digits(k) == IF k < 10 THEN <<k>> ELSE <<k \div 10, k % 10>>
strftime_unpadded(n) ==
    Digits(n \div 86400) \o Digits((n \div 3600) % 24)
        \o Digits((n \div 60) % 60) \o Digits(n % 60)

\* strftime("%Y%m%d_%H%M%S") of the second n, as the digits that follow
\* "Attempt_" in a sheet name: day, hour, minute and second, each padded to
\* two digits
strftime(n) ==
    TwoDigits(n \div 86400) \o TwoDigits((n \div 3600) % 24)
        \o TwoDigits((n \div 60) % 60) \o TwoDigits(n % 60)

\* a > b for two strings, as Python compares them
RECURSIVE str_gt(_, _)
str_gt(a, b) ==
    IF a = << >> THEN FALSE
    ELSE IF b = << >> THEN TRUE
    ELSE IF Head(a) # Head(b) THEN Head(a) > Head(b)
    ELSE str_gt(Tail(a), Tail(b))

\* The sheets of a workbook in workbook order
RECURSIVE sheet_names(_)
sheet_names(S) ==
    IF S = {} THEN << >> ELSE <<MinOf(S)>> \o sheet_names(S \ {MinOf(S)})

\* pd.read_excel: a cell written as the empty string is read back as NaN
NaN == <<"NaN">>
read_cell(v) == IF v = << >> THEN NaN ELSE v
read_excel(workbook) ==
    [n \in DOMAIN workbook |->
        [i \in DOMAIN workbook[n] |->
            [workbook[n][i] EXCEPT !.User_Answer = read_cell(@),
                                   !.Correct_Answer = read_cell(@)]]]

\* The comparison of two cells of a DataFrame: NaN equals nothing
cell_eq(a, b) == a # NaN /\ b # NaN /\ a = b

\* max(df.keys())
max_sheet(df) ==
    CHOOSE n \in DOMAIN df : \A m \in DOMAIN df : ~str_gt(strftime(m), strftime(n))

RECURSIVE column_sum(_, _)
column_sum(sheet_data, column) ==
    IF sheet_data = << >> THEN 0
    ELSE Head(sheet_data)[column] + column_sum(Tail(sheet_data), column)

RECURSIVE num_equal(_)
num_equal(sheet_data) ==
    IF sheet_data = << >> THEN 0
    ELSE (IF cell_eq(Head(sheet_data).User_Answer, Head(sheet_data).Correct_Answer) THEN 1 ELSE 0)
         + num_equal(Tail(sheet_data))

\* Mutant of latest_attempts: the first sheet of a test is never replaced
RECURSIVE latest_attempts_keeps_first(_, _, _)
latest_attempts_keeps_first(df, names, acc) ==
    IF names = << >> THEN acc
    ELSE LET sheet_name == Head(names)
             sheet_data == df[sheet_name]
             test_name == sheet_data[1].Test_Name
         IN  IF Len(sheet_data) > 0 /\ test_name \notin DOMAIN acc.at
             THEN latest_attempts_keeps_first(df, Tail(names),
                      [tests |-> Append(acc.tests, test_name),
                       at |-> DictSet(acc.at, test_name, sheet_name)])
             ELSE latest_attempts_keeps_first(df, Tail(names), acc)

\* get_user_stats, first loop: the dict latest_attempts after the sheets
\* names, as its keys in insertion order and the sheet kept for each key
RECURSIVE latest_attempts(_, _, _)
latest_attempts(df, names, acc) ==
    IF names = << >> THEN acc
    ELSE LET sheet_name == Head(names)
             sheet_data == df[sheet_name]
             test_name == sheet_data[1].Test_Name
         IN  IF Len(sheet_data) > 0
                /\ (\/ test_name \notin DOMAIN acc.at
                    \/ str_gt(strftime(sheet_name), strftime(acc.at[test_name])))
             THEN latest_attempts(df, Tail(names),
                      [tests |-> IF test_name \in DOMAIN acc.at THEN acc.tests
                                 ELSE Append(acc.tests, test_name),
                       at |-> DictSet(acc.at, test_name, sheet_name)])
             ELSE latest_attempts(df, Tail(names), acc)

RECURSIVE SeqSum(_)
SeqSum(xs) == IF xs = << >> THEN 0 ELSE Head(xs) + SeqSum(Tail(xs))

\* Mutant of round_tenths: the digits after the first decimal are cut off
round_tenths_truncates(a, b) == (10 * a) \div b

\* round(a / b, 1) in tenths, b > 0: the nearest tenth, a tie going to the
\* even one
round_tenths(a, b) ==
    LET q == (20 * a + b) \div (2 * b)
    IN  IF (20 * a + b) % (2 * b) = 0 /\ q % 2 = 1 THEN q - 1 ELSE q

\* GET /api/user-stats/{username}; average_score is held in tenths
get_user_stats(username) ==
    /\ IF username \notin DOMAIN excel
       THEN last' = [status |-> 200, message |-> "default stats", total_time |-> 0,
                     tests_completed |-> 0, average_score |-> 0, total_attempts |-> 0]
       ELSE LET df == read_excel(excel[username])
                latest == latest_attempts(df, sheet_names(DOMAIN df),
                                          [tests |-> << >>, at |-> EmptyDict])
                data(i) == df[latest.at[latest.tests[i]]]
                test_scores == [i \in 1..Len(latest.tests) |-> column_sum(data(i), "Marks_Obtained")]
            IN  last' = [status |-> 200,
                         message |-> "user stats",
                         total_time |-> SeqSum([i \in 1..Len(latest.tests) |->
                                                   column_sum(data(i), "Time_Spent")]),
                         tests_completed |-> Cardinality(DOMAIN latest.at),
                         average_score |-> IF test_scores # << >>
                                           THEN round_tenths(SeqSum(test_scores), Len(test_scores))
                                           ELSE 0,
                         total_attempts |-> Cardinality(DOMAIN df),
                         total_questions_attempted |->
                             SeqSum([i \in 1..Len(latest.tests) |-> Len(data(i))]),
                         total_correct_answers |->
                             SeqSum([i \in 1..Len(latest.tests) |-> num_equal(data(i))]),
                         individual_test_scores |-> test_scores,
                         max_possible_score |-> 198,
                         latest_attempts |-> latest.at]
    /\ UNCHANGED <<active_sessions, nextId, now, nTicks, nOps, sessions_file, excel, tasks, trail>>

Sections == <<"VARC", "DILR", "QA">>

\* CATAnalysisAI.load_test_data: question_counts of one catalogue test
question_counts_of(test) ==
    [sec \in {Sections[i] : i \in 1..3} |->
        SeqSum([i \in 1..Len(test.data) |->
                   IF test.data[i].section = sec THEN Len(test.data[i].qa_list) ELSE 0])]

\* CATAnalysisAI.get_question_counts(None): the counts of the first test,
\* or the fixed counts when full_data.json could not be loaded
get_question_counts(data_loaded) ==
    IF data_loaded THEN question_counts_of(load_test_data[1])
    ELSE [sec \in {Sections[i] : i \in 1..3} |->
             IF sec = "VARC" THEN 72 ELSE IF sec = "DILR" THEN 60 ELSE 66]

\* get_ai_analysis: section_scores of the latest sheet
section_scores_of(latest_df) ==
    [sec \in {Sections[i] : i \in 1..3} |->
        SeqSum([i \in 1..Len(latest_df) |->
                   IF latest_df[i].Section = sec THEN latest_df[i].Marks_Obtained ELSE 0])]

section_max_scores ==
    [sec \in {Sections[i] : i \in 1..3} |->
        IF sec = "VARC" THEN 72 ELSE IF sec = "DILR" THEN 60 ELSE 66]

\* generate_basic_analysis: the text, by the figures it is filled with
generate_basic_analysis(section_scores, total_score) ==
    [raised |-> FALSE,
     source |-> "basic",
     section_scores |-> section_scores,
     out_of |-> section_max_scores,
     total_score |-> total_score,
     total_out_of |-> 198]

\* CATAnalysisAI.generate_fallback_analysis: the text, by the figures it is
\* filled with; a section without questions makes the division raise
generate_fallback_analysis(section_scores, data_loaded) ==
    LET question_counts == get_question_counts(data_loaded)
        sum_counts == SeqSum([i \in 1..3 |-> question_counts[Sections[i]]])
    IN  IF sum_counts = 0 \/ \E i \in 1..3 : question_counts[Sections[i]] = 0
        THEN [raised |-> TRUE]
        ELSE [raised |-> FALSE,
              source |-> "programmatic",
              section_scores |-> section_scores,
              out_of |-> question_counts,
              total_score |-> SeqSum([i \in 1..3 |-> section_scores[Sections[i]]]),
              total_out_of |-> sum_counts * 3]

\* CATAnalysisAI.analyze_performance
analyze_performance(section_scores, llm_available, call_ok, data_loaded) ==
    IF ~llm_available THEN generate_fallback_analysis(section_scores, data_loaded)
    ELSE IF call_ok THEN [raised |-> FALSE, source |-> "ai_generated"]
    ELSE generate_fallback_analysis(section_scores, data_loaded)

\* str(cell) and the truth value of a cell of a DataFrame record: NaN is
\* a float, it prints as "nan" and is true
str_of(cell) == IF cell = NaN THEN <<"n", "a", "n">> ELSE cell
truthy(cell) == cell # << >>

\* user_answer and str(user_answer).strip()
answer_given(user_answer) == truthy(user_answer) /\ strip(str_of(user_answer)) # << >>

\* A fraction num / den, and the 0 that stands where nothing is divided
Fraction(num, den) == [num |-> num, den |-> den]
Zero == [num |-> 0, den |-> 1]

\* The indices of the records with time_spent > 0, of a section or of all
timed(question_records, secs) ==
    {i \in 1..Len(question_records) :
        question_records[i].Time_Spent > 0 /\ question_records[i].Section \in secs}

\* calculate_detailed_time_analysis(question_records); the formatted times
\* and avg_time (total_time / questions_with_time) are left out
calculate_detailed_time_analysis(question_records) ==
    IF question_records = << >>
    THEN [total_time |-> 0, avg_per_question |-> Zero, section_times |-> EmptyDict]
    ELSE LET all_sections == {question_records[i].Section : i \in 1..Len(question_records)}
             with_time == timed(question_records, all_sections)
             total_time == SumOver([i \in with_time |-> question_records[i].Time_Spent],
                                   with_time)
             attempted_count ==
                 Cardinality({i \in with_time : answer_given(question_records[i].User_Answer)})
         IN  [total_time |-> total_time,
              avg_per_question |-> IF attempted_count > 0
                                   THEN Fraction(total_time, attempted_count) ELSE Zero,
              section_times |->
                  [sec \in {Sections[i] : i \in 1..3} |->
                      LET times == timed(question_records, {sec})
                      IN  [total_time |-> SumOver([i \in times |-> question_records[i].Time_Spent],
                                                  times),
                           questions_with_time |-> Cardinality(times)]],
              attempted_count |-> attempted_count]

\* calculate_performance_insights: is_correct of a record
insight_correct(record) ==
    lower(strip(str_of(record.User_Answer))) = lower(strip(str_of(record.Correct_Answer)))

\* calculate_performance_insights(question_records, section_scores)
calculate_performance_insights(question_records) ==
    LET valid == {i \in 1..Len(question_records) :
                     question_records[i].Section \in {Sections[k] : k \in 1..3}}
        tried == {i \in valid : answer_given(question_records[i].User_Answer)}
        right == {i \in tried : insight_correct(question_records[i])}
    IN  [section_analysis |->
            [sec \in {Sections[k] : k \in 1..3} |->
                LET mine == {i \in tried : question_records[i].Section = sec}
                    attempted == Cardinality(mine)
                    correct == Cardinality(mine \cap right)
                    total_time == SumOver([i \in mine |-> question_records[i].Time_Spent], mine)
                IN  [attempted |-> attempted,
                     correct |-> correct,
                     total_time |-> total_time,
                     accuracy |-> IF attempted > 0 THEN Fraction(correct * 100, attempted)
                                  ELSE Zero,
                     avg_time_per_question |-> IF attempted > 0
                                               THEN Fraction(total_time, attempted) ELSE Zero,
                     efficiency |-> IF attempted > 0 /\ total_time > 0
                                    THEN Fraction(correct * 3 * 60, total_time) ELSE Zero]],
         question_type_performance |->
            [q_type \in {MCQ, TITA} |->
                LET mine == {i \in tried : (question_records[i].Question_Type = MCQ)
                                              = (q_type = MCQ)}
                IN  [attempted |-> Cardinality(mine),
                     correct |-> Cardinality(mine \cap right)]]]

\* latest_sheet.split('_')[0]: every sheet is named "Attempt_" followed by
\* strftime (save_session_data), so the part before the first "_" is
\* "Attempt"
split_first(latest_sheet) == "Attempt"

\* get_ai_analysis: the user_performance_data handed to
\* analyze_user_performance
user_performance_data(username, latest_sheet, latest_df, section_scores, total_score) ==
    [username |-> username,
     test_name |-> split_first(latest_sheet),
     section_scores |-> section_scores,
     total_score |-> total_score,
     question_data |-> latest_df,
     time_analysis |-> calculate_detailed_time_analysis(latest_df),
     performance_insights |-> calculate_performance_insights(latest_df)]

\* GET /api/ai-analysis/{username}.  module_available: ai_analysis was
\* imported (AI_ANALYSIS_AVAILABLE); llm_available: is_ai_available();
\* call_ok: the call of the model returns; data_loaded: ai_analysis read
\* full_data.json.  section_percentages are held in tenths.  Next to the
\* fields of the response, last holds the sheet that was analysed and the
\* user_performance_data that was prepared for the analyser.
get_ai_analysis(username, module_available, llm_available, call_ok, data_loaded) ==
    /\ IF ~module_available
       THEN last' = [status |-> 200, message |-> "unavailable",
                     basic_analysis |-> "Enable AI features"]
       ELSE IF username \notin DOMAIN excel
       THEN last' = Response(404, "No test data found for user", 0, 0, 0, 0)
       ELSE LET df_dict == read_excel(excel[username])
                latest_sheet == max_sheet(df_dict)
                latest_df == df_dict[latest_sheet]
                section_scores == section_scores_of(latest_df)
                total_score == SeqSum([i \in 1..3 |-> section_scores[Sections[i]]])
                analysis == IF llm_available
                            THEN analyze_performance(section_scores, llm_available,
                                                     call_ok, data_loaded)
                            ELSE generate_basic_analysis(section_scores, total_score)
            IN  IF latest_df = << >>
                THEN last' = Response(404, "Test data is empty", 0, 0, 0, 0)
                ELSE IF analysis.raised
                THEN last' = Response(500, "Analysis generation failed", 0, 0, 0, 0)
                ELSE last' = [status |-> 200,
                              message |-> "success",
                              analysis |-> analysis,
                              section_scores |-> section_scores,
                              section_max_scores |-> section_max_scores,
                              total_score |-> total_score,
                              max_possible_score |-> 198,
                              section_percentages |->
                                  [sec \in DOMAIN section_scores |->
                                      round_tenths(section_scores[sec] * 100,
                                                   section_max_scores[sec])],
                              ai_powered |-> llm_available,
                              latest_sheet |-> latest_sheet,
                              user_performance_data |->
                                  user_performance_data(username, latest_sheet, latest_df,
                                                        section_scores, total_score)]
    /\ UNCHANGED <<active_sessions, nextId, now, nTicks, nOps, sessions_file, excel, tasks, trail>>

\* The letters of a name of the catalogue or of a sheet
letters(name) ==
    CASE name = "Attempt" -> <<"A", "t", "t", "e", "m", "p", "t">>
      [] name = "T1" -> <<"T", "1">>
      [] name = "T2" -> <<"T", "2">>
      [] name = "T3" -> <<"T", "3">>
      [] OTHER -> <<"T", "X">>

\* str.lower() of a name
lower_letter(c) == IF c = "A" THEN "a" ELSE IF c = "T" THEN "t" ELSE IF c = "X" THEN "x" ELSE c
lower_name(str) == [i \in 1..Len(str) |-> lower_letter(str[i])]

\* a in b for two strings
contains(a, b) ==
    \E i \in 0..(Len(b) - Len(a)) : SubSeq(b, i + 1, i + Len(a)) = a

\* str.replace("-", "").replace("_", "")
IsLetter(c) == c \notin {"-", "_"}
without_separators(str) == SelectSeq(str, IsLetter)

\* download_test_report: test_name matches the catalogue name
\* test_json_name in one of the common variations
partial_match(test_name, test_json_name) ==
    LET a == lower_name(letters(test_name))
        b == lower_name(letters(test_json_name))
    IN  \/ contains(a, b)
        \/ contains(b, a)
        \/ lower_name(without_separators(letters(test_name)))
              = lower_name(without_separators(letters(test_json_name)))

\* download_test_report: the catalogue test for test_name: the first with
\* that name, else the first that matches partially, else the first test of
\* the catalogue, whose name then replaces test_name
find_test_data(full_test_data, test_name) ==
    LET tests == 1..Len(full_test_data)
        exact == {i \in tests : full_test_data[i].name = test_name}
        partial == {i \in tests : partial_match(test_name, full_test_data[i].name)}
    IN  IF exact # {}
        THEN [found |-> TRUE, test_data |-> full_test_data[MinOf(exact)], test_name |-> test_name]
        ELSE IF partial # {}
        THEN [found |-> TRUE, test_data |-> full_test_data[MinOf(partial)],
              test_name |-> test_name]
        ELSE IF full_test_data # << >>
        THEN [found |-> TRUE, test_data |-> full_test_data[1],
              test_name |-> full_test_data[1].name]
        ELSE [found |-> FALSE, test_data |-> << >>, test_name |-> test_name]

\* GET /api/download-report/{username}.  The first session of the user
\* that is not paused is saved first; write_ok tells whether that write
\* succeeds.  The response is held by what the PDF is made from: the sheet,
\* the catalogue test and the test name of the file name.
download_test_report(username, write_ok) ==
    /\ LET mine == sessions_to_remove(active_sessions, username)
           saved == IF mine = {} THEN [excel |-> excel, raised |-> FALSE]
                    ELSE save_session_data(active_sessions, excel, MinOf(mine), now, write_ok)
       IN  /\ excel' = saved.excel
           /\ IF saved.raised
              THEN last' = Response(500, "Failed to save progress", 0, 0, 0, 0)
              ELSE IF username \notin DOMAIN saved.excel
              THEN last' = Response(404, "No test data found for user", 0, 0, 0, 0)
              ELSE LET df_dict == read_excel(saved.excel[username])
                       latest_sheet == max_sheet(df_dict)
                       latest_df == df_dict[latest_sheet]
                       match == find_test_data(load_test_data, split_first(latest_sheet))
                   IN  IF ~match.found
                       THEN last' = Response(500, "Failed to generate PDF report", 0, 0, 0, 0)
                       ELSE last' = [status |-> 200,
                                     message |-> "report",
                                     username |-> username,
                                     latest_sheet |-> latest_sheet,
                                     test_data |-> match.test_data.name,
                                     test_name |-> match.test_name]
    /\ UNCHANGED <<active_sessions, nextId, now, nTicks, nOps, sessions_file, tasks, trail>>

\* Specification SpecStats: the statistics and the analysis of u1 and u2
\* over a workbook of u1 that up to MaxSaves saves have written: each save
\* is of a session on one catalogue test with some of its questions
\* answered, in a second of its own.
StatTests == {"T1", "T2", "T3"}
StatSeconds == {9, 10, 70}
StatAnswers ==
    { EmptyDict,
      DictSet(EmptyDict, <<"VARC", 1>>, <<"A">>),
      DictSet(EmptyDict, <<"VARC", 1>>, <<"a">>) }
StatSaves == [test_name : StatTests, given : StatAnswers]

\* The workbook after the saves at the seconds secs, earliest first
RECURSIVE workbook_after(_, _)
workbook_after(saves, secs) ==
    IF secs = {} THEN EmptyDict
    ELSE LET sec == CHOOSE x \in secs : \A y \in secs : y <= x
             session == new_session("u1", saves[sec].test_name, 0)
             store == DictSet(EmptyDict, 1,
                              [session EXCEPT !.answers = answers_of(session, saves[sec].given)])
         IN  save_session_data(store, workbook_after(saves, secs \ {sec}), 1,
                               sec * Res, TRUE).excel

InitStats ==
    /\ \E secs \in SUBSET StatSeconds :
          /\ Cardinality(secs) <= MaxSaves
          /\ \E saves \in [secs -> StatSaves] : excel = workbook_after(saves, secs)
    /\ active_sessions = EmptyDict
    /\ nextId = 1
    /\ now = 0
    /\ nTicks = 0
    /\ nOps = 0
    /\ sessions_file = EmptyDict
    /\ tasks = EmptyBag
    /\ last = Response(0, "", 0, 0, 0, 0)
    /\ trail = EmptyDict

NextStats ==
    \/ \E u \in Users : get_user_stats(u)
    \/ \E u \in Users, module_available \in BOOLEAN, llm_available \in BOOLEAN,
          call_ok \in BOOLEAN, data_loaded \in BOOLEAN :
            get_ai_analysis(u, module_available, llm_available, call_ok, data_loaded)

SpecStats == InitStats /\ [][NextStats]_vars

--------------------------------------------------------------------------
\* The serverless application (vercel_app_improved.py) and its deployment
\* test (test_vercel.py).  A path is the sequence of its segments: "/" is
\* << >> and "/api/flag" is <<"api", "flag">>.

Route(path, methods, endpoint) ==
    [path |-> path, methods |-> methods, endpoint |-> endpoint, mount |-> FALSE]

\* The routes FastAPI(...) registers by itself
fastapi_routes ==
    << Route(<<"openapi.json">>, {"GET", "HEAD"}, "openapi"),
       Route(<<"docs">>, {"GET", "HEAD"}, "swagger_ui_html"),
       Route(<<"docs", "oauth2-redirect">>, {"GET", "HEAD"}, "swagger_ui_redirect"),
       Route(<<"redoc">>, {"GET", "HEAD"}, "redoc_html") >>

\* Mutant of app_routes: the application without POST /api/flag
app_routes_without_flag ==
    fastapi_routes \o
    << Route(<< >>, {"GET"}, "root"),
       Route(<< >>, {"HEAD"}, "root_head"),
       Route(<<"api", "signup">>, {"POST"}, "signup"),
       Route(<<"api", "login">>, {"POST"}, "login"),
       Route(<<"api", "tests">>, {"GET"}, "get_available_tests"),
       Route(<<"api", "start-test">>, {"POST"}, "start_test"),
       Route(<<"api", "test-data", "{test_name}">>, {"GET"}, "get_test_data"),
       Route(<<"api", "session", "{session_id}">>, {"GET"}, "get_session"),
       Route(<<"api", "submit-answer">>, {"POST"}, "submit_answer"),
       Route(<<"api", "bookmark">>, {"POST"}, "toggle_bookmark"),
       Route(<<"api", "user-stats", "{username}">>, {"GET"}, "get_user_stats"),
       Route(<<"api", "download-report", "{username}">>, {"GET"}, "download_test_report"),
       [path |-> <<"static">>, methods |-> {}, endpoint |-> "static", mount |-> TRUE] >>

\* app.routes once vercel_app_improved is imported: the decorators in the
\* order of the file, then the mount of the static files
app_routes ==
    fastapi_routes \o
    << Route(<< >>, {"GET"}, "root"),
       Route(<< >>, {"HEAD"}, "root_head"),
       Route(<<"api", "signup">>, {"POST"}, "signup"),
       Route(<<"api", "login">>, {"POST"}, "login"),
       Route(<<"api", "tests">>, {"GET"}, "get_available_tests"),
       Route(<<"api", "start-test">>, {"POST"}, "start_test"),
       Route(<<"api", "test-data", "{test_name}">>, {"GET"}, "get_test_data"),
       Route(<<"api", "session", "{session_id}">>, {"GET"}, "get_session"),
       Route(<<"api", "submit-answer">>, {"POST"}, "submit_answer"),
       Route(<<"api", "bookmark">>, {"POST"}, "toggle_bookmark"),
       Route(<<"api", "flag">>, {"POST"}, "set_flag"),
       Route(<<"api", "user-stats", "{username}">>, {"GET"}, "get_user_stats"),
       Route(<<"api", "download-report", "{username}">>, {"GET"}, "download_test_report"),
       [path |-> <<"static">>, methods |-> {}, endpoint |-> "static", mount |-> TRUE] >>

\* A segment of a route path that stands for a parameter
PathParams == {"{test_name}", "{session_id}", "{username}"}

\* The path of a request matches the path of a route
path_matches(route, path) ==
    IF route.mount
    THEN Len(path) > Len(route.path) /\ SubSeq(path, 1, Len(route.path)) = route.path
    ELSE /\ Len(path) = Len(route.path)
         /\ \A i \in 1..Len(path) : route.path[i] = path[i] \/ route.path[i] \in PathParams

\* Router: the first route that matches path and method answers; if none
\* does, a route that matches the path alone answers 405; otherwise 404
dispatch(table, method, path) ==
    LET full == {i \in 1..Len(table) :
                    /\ path_matches(table[i], path)
                    /\ (table[i].mount \/ method \in table[i].methods)}
        partial == {i \in 1..Len(table) : path_matches(table[i], path)}
    IN  IF full # {} THEN [status |-> 200, endpoint |-> table[MinOf(full)].endpoint]
        ELSE IF partial # {} THEN [status |-> 405, endpoint |-> table[MinOf(partial)].endpoint]
        ELSE [status |-> 404, endpoint |-> ""]

Methods == {"GET", "POST", "HEAD"}
RequestPaths ==
    { << >>, <<"api", "signup">>, <<"api", "login">>, <<"api", "tests">>,
      <<"api", "start-test">>, <<"api", "test-data", "T1">>, <<"api", "session", "1">>,
      <<"api", "submit-answer">>, <<"api", "bookmark">>, <<"api", "flag">>,
      <<"api", "user-stats", "u1">>, <<"api", "pause-test">>, <<"api", "session">>,
      <<"static", "app.js">>, <<"docs">> }

\* One request to the serverless application
request(method, path) ==
    /\ Served
    /\ LET answer == dispatch(app_routes, method, path)
       IN  last' = [status |-> answer.status, message |-> "request", method |-> method,
                    path |-> path, endpoint |-> answer.endpoint]
    /\ UNCHANGED <<active_sessions, nextId, now, nTicks, sessions_file, excel, tasks, trail>>

\* test_vercel.py: the routes the deployment test requires
required_routes ==
    << << >>, <<"api", "signup">>, <<"api", "login">>, <<"api", "tests">>,
       <<"api", "start-test">>, <<"api", "test-data", "{test_name}">>,
       <<"api", "session", "{session_id}">>, <<"api", "submit-answer">>,
       <<"api", "bookmark">>, <<"api", "flag">> >>

\* `route in r`: route occurs inside r
occurs_in(route, r) ==
    \E k \in 0..(Len(r) - Len(route)) : SubSeq(r, k + 1, k + Len(route)) = route

\* test_app_routes(): the list missing_routes, and the value returned
missing_routes(table) ==
    SelectSeq(required_routes,
              LAMBDA route : ~\E i \in 1..Len(table) : occurs_in(route, table[i].path))

test_app_routes ==
    /\ Served
    /\ last' = [status |-> 0, message |-> "test_app_routes",
                missing_routes |-> missing_routes(app_routes),
                passed |-> missing_routes(app_routes) = << >>]
    /\ UNCHANGED <<active_sessions, nextId, now, nTicks, sessions_file, excel, tasks, trail>>

\* Specification SpecRoutes: requests to the serverless application, and
\* runs of its deployment test
NextRoutes ==
    \/ \E method \in Methods, path \in RequestPaths : request(method, path)
    \/ test_app_routes

SpecRoutes == Init /\ [][NextRoutes]_vars

--------------------------------------------------------------------------
\* Restart (app.py:135-167)

\* Mutant of load_active_sessions: time_started is read to the whole second
load_active_sessions_whole_seconds(file) ==
    [sid \in DOMAIN file |->
        [file[sid] EXCEPT !.time_started = (fromisoformat(@) \div Res) * Res]]

\* load_active_sessions(): the dict read from active_sessions.json
load_active_sessions(file) ==
    [sid \in DOMAIN file |-> [file[sid] EXCEPT !.time_started = fromisoformat(@)]]

\* The process is started again: active_sessions is loaded from the file,
\* and the tasks of the old process are gone
restart ==
    /\ active_sessions' = load_active_sessions(sessions_file)
    /\ tasks' = EmptyBag
    /\ trail' = [sid \in DOMAIN sessions_file |-> Get(trail, sid, << >>)]
    /\ last' = Response(0, "", 0, 0, 0, 0)
    /\ UNCHANGED <<nextId, now, nTicks, nOps, sessions_file, excel>>

\* Specification SpecStore: the sessions of u1, on a catalogue test or on
\* a test the catalogue does not have, with answers to a question of the
\* test and to one that is not of the test, on a disk that takes or refuses
\* the archive write of a pause, and with restarts of the process.
NextStore ==
    \/ \E d \in TickSteps : Tick(d)
    \/ \E t \in {"T1", UnknownTest} : start_test("u1", t)
    \/ \E sid \in SessionIds, q \in {<<"VARC", 1>>, <<"DILR", 1>>} :
          submit_answer(sid, q, <<"A">>, 7)
    \/ \E sid \in SessionIds : toggle_bookmark(sid, <<"VARC", 1>>, "add")
    \/ \E sid \in SessionIds : set_flag(sid, <<"VARC", 1>>, "red")
    \/ \E sid \in SessionIds, write_ok \in BOOLEAN : pause_test(sid, write_ok)
    \/ \E sid \in SessionIds : resume_test(sid)
    \/ \E sid \in SessionIds : cleanup_session(sid)
    \/ cleanup_all_sessions
    \/ restart

SpecStore == Init /\ [][NextStore]_vars

--------------------------------------------------------------------------
\* Claims on scoring (specification SpecScore)

\* Every row of every archived sheet, with the user and sheet it is in
ArchivedRows ==
    {r \in UNION {UNION {{[user |-> u, sheet |-> n, index |-> i, row |-> excel[u][n][i]] :
                             i \in 1..Len(excel[u][n])} : n \in DOMAIN excel[u]} :
                  u \in DOMAIN excel} : TRUE}

\* The answer of a row is correct: attempted, and equal to the correct
\* answer up to case and surrounding whitespace
RowCorrect(row) ==
    is_attempted(row.User_Answer) /\ is_correct(row.User_Answer, row.Correct_Answer)

\* C3: marking law.  The marks of every scored row are -1, 0 or 3; they are
\* 3 exactly when the answer is correct; they are -1 only for a Multiple
\* Choice question answered incorrectly.
C3_MarkingLaw ==
    \A r \in ArchivedRows :
        /\ r.row.Marks_Obtained \in {-1, 0, 3}
        /\ (r.row.Marks_Obtained = 3) <=> RowCorrect(r.row)
        /\ (r.row.Marks_Obtained = -1) =>
               (r.row.Question_Type = MCQ /\ ~RowCorrect(r.row))

\* C4: a non-empty submission that equals the correct answer up to letter
\* case and surrounding whitespace is scored +3, for MCQ and fill-in alike.
C4_CaseInsensitiveTrimmed ==
    \A r \in ArchivedRows :
        (r.row.User_Answer # << >> /\ is_correct(r.row.User_Answer, r.row.Correct_Answer))
            => r.row.Marks_Obtained = 3

\* C5: a scored sheet has exactly one row per question of the session's
\* test, in whatever subset the questions were answered, and a question
\* with no submitted answer (missing or empty) has marks 0.
C5_OneRowPerQuestion ==
    \A u \in DOMAIN excel : \A n \in DOMAIN excel[u] :
        LET rows == excel[u][n]
            session == active_sessions[1]
        IN  /\ Len(rows) = total_questions(session.test_name)
            /\ \A i, j \in 1..Len(rows) : rows[i].Question_ID = rows[j].Question_ID => i = j
            /\ \A i \in 1..Len(rows) :
                  (\/ rows[i].Question_ID \notin DOMAIN session.answers
                   \/ session.answers[rows[i].Question_ID].answer = << >>)
                      => rows[i].Marks_Obtained = 0

\* C5 witness: a saved sheet of T2 (three questions) where one question was
\* answered wrongly, one submitted empty and one never submitted
C5_Witness ==
    /\ "u1" \in DOMAIN excel
    /\ active_sessions[1].test_name = "T2"
    /\ DOMAIN active_sessions[1].answers = {<<"VARC", 1>>, <<"DILR", 1>>}
    /\ active_sessions[1].answers[<<"VARC", 1>>].answer = <<"A", "A">>
    /\ active_sessions[1].answers[<<"DILR", 1>>].answer = << >>
    /\ \E n \in DOMAIN excel["u1"] :
          /\ Len(excel["u1"][n]) = 3
          /\ excel["u1"][n][1].Marks_Obtained = -1
          /\ excel["u1"][n][2].Marks_Obtained = 0
          /\ excel["u1"][n][3].Marks_Obtained = 0

--------------------------------------------------------------------------
\* Claims on the session lifecycle (specification Spec)

\* The sessions of user u that are not paused
ActiveOf(store, u) == {sid \in DOMAIN store : store[sid].username = u /\ ~store[sid].is_paused}

\* The paused sessions of user u
PausedOf(store, u) == {sid \in DOMAIN store : store[sid].username = u /\ store[sid].is_paused}

\* C1: after start(u, t) the store holds exactly one session of u that is
\* not paused, the new one, for test t; every session of u that was paused
\* before the start is still there with all fields unchanged.  This holds
\* of every start, so also of the second of two starts in a row.
C1_StartLeavesOneActive ==
    [][\A u \in Users, t \in TestNames :
          start_test(u, t) =>
             /\ ActiveOf(active_sessions', u) = {nextId}
             /\ active_sessions'[nextId].test_name = t
             /\ \A sid \in PausedOf(active_sessions, u) :
                   /\ sid \in DOMAIN active_sessions'
                   /\ active_sessions'[sid] = active_sessions[sid]]_vars

\* C1 witness: u1 started T1 (session 1) and paused it, started again
\* (session 2) and started T2 (session 3): session 2 is gone, session 1 is
\* still paused, session 3 is the one running
C1_Witness ==
    /\ nOps = 4
    /\ last.message = "Test session started"
    /\ last.session_id = 3
    /\ DOMAIN active_sessions = {1, 3}
    /\ active_sessions[1].username = "u1" /\ active_sessions[1].is_paused
    /\ active_sessions[1].test_name = "T1"
    /\ active_sessions[3].username = "u1" /\ ~active_sessions[3].is_paused
    /\ active_sessions[3].test_name = "T2"

\* C2: in every reachable state each user owns at most one session that is
\* not paused.
C2_AtMostOneActivePerUser ==
    \A u \in Users : Cardinality(ActiveOf(active_sessions, u)) <= 1

\* The requests of a session's history, and the time of its i-th request
TrailOps(sid) == [i \in 1..Len(trail[sid]) |-> trail[sid][i][1]]
TrailTime(sid, i) == trail[sid][i][2]

PauseResumePause == <<"start", "pause", "resume", "pause">>

\* C6 as claimed: after start, pause, resume, pause the stored
\* time_remaining is the original budget minus the time elapsed in the two
\* Active spans (here in ticks, Res to the second), and time_remaining never
\* increases.
C6_ExactElapsed ==
    \A sid \in DOMAIN active_sessions :
        TrailOps(sid) = PauseResumePause =>
            Res * (TotalTime - active_sessions[sid].time_remaining)
                = (TrailTime(sid, 2) - TrailTime(sid, 1))
                  + (TrailTime(sid, 4) - TrailTime(sid, 3))

\* C6 amended, the arithmetic: each Active span is charged in whole
\* seconds, its elapsed time truncated; the time spent Paused is not charged.
C6_TruncatedSpans ==
    \A sid \in DOMAIN active_sessions :
        TrailOps(sid) = PauseResumePause =>
            active_sessions[sid].time_remaining
                = TotalTime
                  - ((TrailTime(sid, 2) - TrailTime(sid, 1)) \div Res)
                  - ((TrailTime(sid, 4) - TrailTime(sid, 3)) \div Res)

\* C6, the monotonicity: no request raises a session's time_remaining
C6_NeverIncreases ==
    \A sid \in (DOMAIN active_sessions) \cap (DOMAIN active_sessions') :
        active_sessions'[sid].time_remaining <= active_sessions[sid].time_remaining

\* C6 amended
C6_PauseResumePause == []C6_TruncatedSpans /\ [][C6_NeverIncreases]_vars

\* C6 witness: a session paused, resumed and paused again, with time
\* passing in both Active spans and while it was paused
C6_Witness ==
    \E sid \in DOMAIN active_sessions :
        /\ TrailOps(sid) = PauseResumePause
        /\ TrailTime(sid, 2) > TrailTime(sid, 1)
        /\ TrailTime(sid, 3) > TrailTime(sid, 2)
        /\ active_sessions[sid].time_remaining < TotalTime

\* C7: pause on a session that is already paused leaves its time_remaining
\* and its pause marker unchanged.
C7_PauseOnPausedIsNoOp ==
    [][\A sid \in SessionIds :
          (pause_test(sid, TRUE) /\ sid \in DOMAIN active_sessions
             /\ active_sessions[sid].is_paused) =>
                /\ active_sessions'[sid].time_remaining = active_sessions[sid].time_remaining
                /\ active_sessions'[sid].paused_at = active_sessions[sid].paused_at
                /\ active_sessions'[sid].is_paused]_vars

\* C8: resume on a session that is not paused does not reset started_at, so
\* the remaining time reported right after the call is not larger than the
\* one reported right before it.
C8_ResumeOnActiveIsNoOp ==
    [][\A sid \in SessionIds :
          (resume_test(sid) /\ sid \in DOMAIN active_sessions
             /\ ~active_sessions[sid].is_paused) =>
                /\ active_sessions'[sid].time_started = active_sessions[sid].time_started
                /\ reported_remaining(active_sessions'[sid], now')
                      <= reported_remaining(active_sessions[sid], now)]_vars

\* C9: get_session on a paused session returns the time_remaining stored
\* at pause (shown as 0 when negative, C10), whatever time has passed
\* since; on a running session it returns the stored time_remaining minus
\* the seconds elapsed since time_started (shown as 0 when negative).
C9_GetStateByPhase ==
    [][\A sid \in SessionIds :
          (get_session(sid) /\ sid \in DOMAIN active_sessions) =>
              last'.time_remaining =
                  IF active_sessions[sid].is_paused
                  THEN Max(0, active_sessions[sid].time_remaining)
                  ELSE Max(0, active_sessions[sid].time_remaining
                                - elapsed_seconds(now, active_sessions[sid].time_started))]_vars

\* C10, the reads: a remaining time returned by get_session or
\* get_active_session is never negative
C10_ReportedNotNegative ==
    last.message \in {"session", "active session"} => last.time_remaining >= 0

\* C10, the store: pause writes time_remaining minus the elapsed seconds,
\* without a floor
C10_PauseNotClamped ==
    \A sid \in SessionIds :
        (pause_test(sid, TRUE) /\ sid \in DOMAIN active_sessions) =>
            active_sessions'[sid].time_remaining
                = active_sessions[sid].time_remaining
                  - elapsed_seconds(now, active_sessions[sid].time_started)

\* C10: the remaining time returned by get_session and get_active_session
\* is never negative, while the time_remaining that pause stores is not
\* clamped.
C10_ClampedOnReadOnly == []C10_ReportedNotNegative /\ [][C10_PauseNotClamped]_vars

\* C10 witness: a paused session whose stored time_remaining is negative,
\* just read by get_session as 0
C10_Witness ==
    /\ last.message = "session"
    /\ last.time_remaining = 0
    /\ \E sid \in DOMAIN active_sessions :
          /\ active_sessions[sid].is_paused
          /\ active_sessions[sid].time_remaining < 0

--------------------------------------------------------------------------
\* Claims on the content of a session (specification SpecEdit)

\* The elements of a list
Elems(l) == {l[i] : i \in 1..Len(l)}

\* The question ids of a session's test
QuestionIdsOf(test_name) == {q.question_id : q \in Elems(all_questions(test_name))}

\* C11: an answer call on a live session leaves, for its question id, the
\* record of this call (value, time spent, timestamp of the call); the
\* answers stay one record per question id, a new key only for this id; the
\* records of the other question ids are unchanged.
C11_LastWriteWins ==
    [][\A sid \in SessionIds, q \in QuestionIds, sub \in Submissions :
          (/\ sid \in DOMAIN active_sessions
           /\ last'.message = "Answer submitted successfully"
           /\ submit_answer(sid, q, sub.answer, sub.time_spent)) =>
              LET before == active_sessions[sid].answers
                  after == active_sessions'[sid].answers
              IN  /\ DOMAIN after = DOMAIN before \cup {q}
                  /\ after[q].answer = sub.answer
                  /\ after[q].time_spent = sub.time_spent
                  /\ after[q].timestamp = isoformat(now)
                  /\ \A o \in DOMAIN before \ {q} : after[o] = before[o]]_vars

\* C11 witness: session 1 held "A" (7 s, time 0) for VARC_1; half a second
\* later it holds "a" (9 s) for it, next to a record for QA_1
C11_Witness ==
    /\ 1 \in DOMAIN active_sessions
    /\ DOMAIN active_sessions[1].answers = {<<"VARC", 1>>, <<"QA", 1>>}
    /\ active_sessions[1].answers[<<"VARC", 1>>].answer = <<"a">>
    /\ active_sessions[1].answers[<<"VARC", 1>>].time_spent = 9
    /\ active_sessions[1].answers[<<"VARC", 1>>].timestamp = isoformat(1)
    /\ last.message = "Answer submitted successfully"

\* C13: start with a test name that the catalogue does not hold is
\* rejected: not found, and the store is as before.
C13_UnknownTestRejected ==
    [][\A u \in Users :
          start_test(u, UnknownTest) =>
              /\ last'.status = 404
              /\ active_sessions' = active_sessions]_vars

\* C14: the keys of a session's answers are question ids of its test.
C14_AnswersWithinTest ==
    \A sid \in DOMAIN active_sessions :
        DOMAIN active_sessions[sid].answers \subseteq QuestionIdsOf(active_sessions[sid].test_name)

\* C15, the collection: no question id is bookmarked twice
C15_NoDuplicates ==
    \A sid \in DOMAIN active_sessions :
        LET b == active_sessions[sid].bookmarks
        IN  \A i, j \in 1..Len(b) : i # j => b[i] # b[j]

\* C15, the steps: add leaves the id bookmarked and changes nothing when
\* it already was; remove of an id that is not bookmarked changes nothing
C15_AddRemoveSteps ==
    \A sid \in SessionIds, q \in MarkedIds :
        LET before == active_sessions[sid].bookmarks
            after == active_sessions'[sid].bookmarks
        IN  /\ (/\ sid \in DOMAIN active_sessions
                 /\ last'.message = "Bookmark added successfully"
                 /\ toggle_bookmark(sid, q, "add")) =>
                  /\ Elems(after) = Elems(before) \cup {q}
                  /\ q \in Elems(before) => after = before
            /\ (/\ sid \in DOMAIN active_sessions
                 /\ last'.message = "Bookmark removeed successfully"
                 /\ q \notin Elems(before)
                 /\ toggle_bookmark(sid, q, "remove")) => after = before

\* C15: bookmark(add) twice is bookmark(add) once, bookmark(remove) of an
\* id that is not bookmarked changes nothing, and the collection never holds
\* a question id more than once.
C15_BookmarkIdempotent == []C15_NoDuplicates /\ [][C15_AddRemoveSteps]_vars

\* C15 witness: VARC_1 was bookmarked in session 1, add was called on
\* session 1 again and the list still holds it once
C15_Witness ==
    /\ nOps >= 1
    /\ 1 \in DOMAIN active_sessions
    /\ active_sessions[1].bookmarks = <<<<"VARC", 1>>>>
    /\ last.message = "Bookmark added successfully"

\* C16: after flag with none the question id is not in the flag mapping;
\* after flag with another colour the mapping holds that colour for it;
\* the flags of the other question ids are unchanged.
C16_FlagUpsertOrRemove ==
    [][\A sid \in SessionIds, q \in MarkedIds, c \in Colors :
          (/\ sid \in DOMAIN active_sessions
           /\ last'.message = "Flag updated successfully"
           /\ set_flag(sid, q, c)) =>
              LET before == active_sessions[sid].flags
                  after == active_sessions'[sid].flags
              IN  /\ IF c = "none" THEN q \notin DOMAIN after
                                   ELSE q \in DOMAIN after /\ after[q] = c
                  /\ DOMAIN after \ {q} = DOMAIN before \ {q}
                  /\ \A o \in DOMAIN before \ {q} : after[o] = before[o]]_vars

\* C16 witness: session 1 had VARC_1 red; now VARC_1 has no flag and QA_1
\* is green
C16_Witness ==
    /\ 1 \in DOMAIN active_sessions
    /\ DOMAIN active_sessions[1].flags = {<<"QA", 1>>}
    /\ active_sessions[1].flags[<<"QA", 1>>] = "green"
    /\ last.message = "Flag updated successfully"

\* C17: every colour in a session's flag mapping is red, yellow or green.
C17_FlagColours ==
    \A sid \in DOMAIN active_sessions :
        \A q \in DOMAIN active_sessions[sid].flags :
            active_sessions[sid].flags[q] \in {"red", "yellow", "green"}

--------------------------------------------------------------------------
\* Claims on the sessions of the store (specifications Spec and SpecFlush)

\* Some request on session id sid other than start and terminate
RequestOn(sid) ==
    \/ get_session(sid)
    \/ submit_answer(sid, <<"VARC", 1>>, <<"A">>, 7)
    \/ toggle_bookmark(sid, <<"VARC", 1>>, "add")
    \/ set_flag(sid, <<"VARC", 1>>, "red")
    \/ manual_save_session(sid, TRUE)
    \/ pause_test(sid, TRUE)
    \/ resume_test(sid)

\* C12, the requests: on a session id that is not in the store each of them
\* answers 404 Session not found and leaves the store, its file and the
\* archive as they were
C12_NotFoundStep ==
    \A sid \in SessionIds :
        (sid \notin DOMAIN active_sessions /\ RequestOn(sid)) =>
            /\ last'.status = 404
            /\ last'.message = "Session not found"
            /\ active_sessions' = active_sessions
            /\ sessions_file' = sessions_file
            /\ excel' = excel

\* C12, the ids: a session id that was handed out and is gone stays gone
C12_NeverRecreated ==
    \A sid \in SessionIds :
        (sid < nextId /\ sid \notin DOMAIN active_sessions) =>
            sid \notin DOMAIN active_sessions'

\* C12: for a session id that is not in the store, answer, bookmark, flag,
\* pause, resume, manual save and getState fail with Session not found and
\* change neither the store nor the archive; no request brings a removed
\* session id back.
C12_SessionNotFound == [][C12_NotFoundStep /\ C12_NeverRecreated]_vars

\* C12 witness: a request was answered Session not found while a session id
\* handed out earlier is gone, another session is live and the archive holds
\* a save
C12_Witness ==
    /\ last.status = 404
    /\ last.message = "Session not found"
    /\ \E sid \in SessionIds : sid < nextId /\ sid \notin DOMAIN active_sessions
    /\ DOMAIN active_sessions # {}
    /\ DOMAIN excel # {}

\* The age of a session in ticks
AgeTicks(sid) == now - active_sessions[sid].time_started

\* The sessions that are not paused and older than 24 hours
OlderThanMaxAge ==
    {sid \in DOMAIN active_sessions :
        ~active_sessions[sid].is_paused /\ AgeTicks(sid) > StaleAge * Res}

\* The sessions that are not paused and 24 hours old or older
MaxAgeOrOlder ==
    {sid \in DOMAIN active_sessions :
        ~active_sessions[sid].is_paused /\ AgeTicks(sid) >= StaleAge * Res}

\* gcStale removes exactly the sessions of gone, leaves the others as they
\* were and returns the sizes of the store before and after
GcRemoves(gone) ==
    (last'.message = "Cleaned up stale sessions" /\ cleanup_all_sessions) =>
        /\ DOMAIN active_sessions' = DOMAIN active_sessions \ gone
        /\ \A sid \in DOMAIN active_sessions' : active_sessions'[sid] = active_sessions[sid]
        /\ last'.before = Cardinality(DOMAIN active_sessions)
        /\ last'.after = Cardinality(DOMAIN active_sessions')

\* C18 as claimed: gcStale removes exactly the sessions that are not paused
\* and older than 24 hours, the others stay unchanged, and before / after
\* are the sizes of the store.
C18_RemovesOlderOnly == [][GcRemoves(OlderThanMaxAge)]_vars

\* C18 amended: gcStale removes exactly the sessions that are not paused
\* and 24 hours old or older (a session of exactly 24 hours goes too), the
\* others stay unchanged, and before / after are the sizes of the store.
C18_RemovesMaxAgeOrOlder == [][GcRemoves(MaxAgeOrOlder)]_vars

\* C18 witness: gcStale took one of two sessions and left a paused session
\* that is 24 hours old
C18_Witness ==
    /\ last.message = "Cleaned up stale sessions"
    /\ last.before = 2
    /\ last.after = 1
    /\ \E sid \in DOMAIN active_sessions :
          active_sessions[sid].is_paused /\ AgeTicks(sid) >= StaleAge * Res

\* C19: a paused session stays in the store and stays paused through every
\* step that is not resume or terminate of its own session id.
C19_PausedUntilResumeOrTerminate ==
    [][\A sid \in SessionIds :
          (/\ sid \in DOMAIN active_sessions
           /\ active_sessions[sid].is_paused
           /\ ~resume_test(sid)
           /\ ~cleanup_session(sid)) =>
              /\ sid \in DOMAIN active_sessions'
              /\ active_sessions'[sid].is_paused]_vars

\* C19 witness: a paused session, 24 hours old, next to a later running
\* session of the same user, after gcStale, with a save in the archive
C19_Witness ==
    /\ last.message = "Cleaned up stale sessions"
    /\ \E sid, other \in DOMAIN active_sessions :
          /\ active_sessions[sid].is_paused
          /\ AgeTicks(sid) >= StaleAge * Res
          /\ sid < other
          /\ active_sessions[other].username = active_sessions[sid].username
          /\ ~active_sessions[other].is_paused

\* C20: terminate of a live session removes that session and no other,
\* leaves the other sessions unchanged and leaves the archive as it was.
C20_TerminateRemovesOne ==
    [][\A sid \in SessionIds :
          (sid \in DOMAIN active_sessions /\ cleanup_session(sid)) =>
              /\ DOMAIN active_sessions' = DOMAIN active_sessions \ {sid}
              /\ \A o \in DOMAIN active_sessions' : active_sessions'[o] = active_sessions[o]
              /\ excel' = excel]_vars

\* C20 witness: session 1 was terminated after it was paused, which
\* archived it; session 2 is still live
C20_Witness ==
    /\ last.message = "Session cleaned up successfully"
    /\ last.session_id = 1
    /\ DOMAIN active_sessions = {2}
    /\ active_sessions[2].username = "u2"
    /\ "u1" \in DOMAIN excel

--------------------------------------------------------------------------
\* Claims on the archive (specification SpecDisk)

\* C21: when the archive write of a pause fails, the session is paused
\* afterwards, with the pause marker set and time_remaining reduced by the
\* elapsed seconds, and the request is not answered as failed: the caller
\* gets the pause confirmed, with a warning.
C21_PausedDespiteFailedWrite ==
    [][\A sid \in SessionIds :
          (/\ sid \in DOMAIN active_sessions
           /\ excel' = excel
           /\ pause_test(sid, FALSE)) =>
              /\ active_sessions'[sid].is_paused
              /\ active_sessions'[sid].paused_at = now
              /\ active_sessions'[sid].time_remaining
                    = active_sessions[sid].time_remaining
                      - elapsed_seconds(now, active_sessions[sid].time_started)
              /\ last'.status = 200]_vars

\* The sheet names of the archive, and its snapshots: user and sheet
SheetNames(book) == UNION {DOMAIN book[u] : u \in DOMAIN book}
Snapshots(book) == {x \in (DOMAIN book) \X SheetNames(book) : x[2] \in DOMAIN book[x[1]]}

\* A save of session sid that the disk took: by manual save, by pause or by
\* a turn of an auto_save_session task
SavedStep(sid) ==
    \/ last'.message = "Session saved successfully" /\ manual_save_session(sid, TRUE)
    \/ last'.message = "Test paused successfully" /\ pause_test(sid, TRUE)
    \/ \E task \in BagToSet(tasks) : task.sid = sid /\ auto_save_session(task, TRUE)

\* C22: every save that succeeds adds one snapshot to the archive and
\* leaves every snapshot written before present and unchanged.
C22_AppendOnly ==
    [][\A sid \in SessionIds :
          (sid \in DOMAIN active_sessions /\ SavedStep(sid)) =>
              /\ Cardinality(Snapshots(excel')) = Cardinality(Snapshots(excel)) + 1
              /\ \A x \in Snapshots(excel) :
                    /\ x \in Snapshots(excel')
                    /\ excel'[x[1]][x[2]] = excel[x[1]][x[2]]]_vars

\* The number of auto_save_session tasks armed for session sid
NumTasksOf(sid) == BagCardinality([task \in TasksOf(sid) |-> CopiesIn(task, tasks)])

\* C29: no auto_save_session task is armed for a paused session, and
\* exactly one is armed for a session that is running.
C29_OneTaskWhileActive ==
    \A sid \in DOMAIN active_sessions :
        IF active_sessions[sid].is_paused
        THEN TasksOf(sid) = {}
        ELSE NumTasksOf(sid) = 1

\* A session id that was given out and is no longer in active_sessions
Gone(sid) == sid < nextId /\ sid \notin DOMAIN active_sessions

\* C28: once a session is removed from active_sessions, every
\* auto_save_session task of its id eventually ends, and the turn such a
\* task takes after the removal writes neither the archive nor the sessions
\* file.
C28_TaskStopsAfterRemoval ==
    /\ \A sid \in SessionIds : (Gone(sid) /\ TasksOf(sid) # {}) ~> (TasksOf(sid) = {})
    /\ [][\A sid \in SessionIds :
             (Gone(sid) /\ TurnOf(sid)) =>
                 /\ excel' = excel
                 /\ sessions_file' = sessions_file
                 /\ active_sessions' = active_sessions]_vars

\* Session 1 was removed while its task slept; the sleep has elapsed and
\* the task has ended.
C28_Witness ==
    /\ Gone(1)
    /\ now = AutoSaveInterval * Res
    /\ TasksOf(1) = {}

--------------------------------------------------------------------------
\* Claims on statistics and analysis (specification SpecStats)

\* The test names archived in a workbook, the sheets of one test, and the
\* sheet of a test that was written last
TestsArchived(workbook) == {workbook[n][1].Test_Name : n \in DOMAIN workbook}
SheetsOfTest(workbook, test) == {n \in DOMAIN workbook : workbook[n][1].Test_Name = test}
LatestSnapshot(workbook, test) ==
    CHOOSE n \in SheetsOfTest(workbook, test) : \A m \in SheetsOfTest(workbook, test) : m <= n

\* The statistics last answered are those of u1's workbook
StatsOfU1 == "u1" \in DOMAIN excel /\ last.message = "user stats"

\* C23: of the snapshots of one test the statistics select the one with
\* the latest archive timestamp, whatever the number of snapshots and
\* whatever snapshots of other tests lie between them.
C23_LatestSelected ==
    StatsOfU1 =>
        /\ DOMAIN last.latest_attempts = TestsArchived(excel["u1"])
        /\ \A test \in TestsArchived(excel["u1"]) :
              last.latest_attempts[test] = LatestSnapshot(excel["u1"], test)

\* T1 was archived at seconds 9 and 70 with T2 archived in between, and
\* the statistics took the snapshot of second 70 for T1.
C23_Witness ==
    /\ StatsOfU1
    /\ DOMAIN excel["u1"] = {9, 10, 70}
    /\ excel["u1"][9][1].Test_Name = "T1"
    /\ excel["u1"][10][1].Test_Name = "T2"
    /\ excel["u1"][70][1].Test_Name = "T1"
    /\ last.latest_attempts["T1"] = 70

\* The marks of a snapshot, and the marks of the latest snapshot per test
MarksOf(rows) == SeqSum([i \in 1..Len(rows) |-> rows[i].Marks_Obtained])
LatestTotals(workbook) ==
    [test \in TestsArchived(workbook) |-> MarksOf(workbook[LatestSnapshot(workbook, test)])]

\* tests completed is the number of distinct tests archived, and the
\* score list holds the total of the latest snapshot of each, once
CountsLatestOnly ==
    LET totals == LatestTotals(excel["u1"])
        scores == last.individual_test_scores
    IN  /\ last.tests_completed = Cardinality(DOMAIN totals)
        /\ Len(scores) = Cardinality(DOMAIN totals)
        /\ \A test \in DOMAIN totals :
              Cardinality({i \in 1..Len(scores) : scores[i] = totals[test]})
                  = Cardinality({other \in DOMAIN totals : totals[other] = totals[test]})

\* C24 as stated: the statistics count one snapshot per distinct test, the
\* latest, and the average score is the mean of those totals.
C24_MeanOfLatestTotals ==
    StatsOfU1 =>
        /\ CountsLatestOnly
        /\ LET totals == LatestTotals(excel["u1"])
           IN  last.average_score * Cardinality(DOMAIN totals)
                   = 10 * SumOver(totals, DOMAIN totals)

\* C24 as the code has it: the statistics count one snapshot per distinct
\* test, the latest, and the average score is the mean of those totals
\* rounded to the nearest tenth.
C24_RoundedMeanOfLatestTotals ==
    StatsOfU1 =>
        /\ CountsLatestOnly
        /\ LET totals == LatestTotals(excel["u1"])
               n == Cardinality(DOMAIN totals)
               off == 10 * SumOver(totals, DOMAIN totals) - last.average_score * n
           IN  2 * off <= n /\ -2 * off <= n

\* Three tests are archived with totals 3, 0 and -1: the mean 2/3 is
\* reported as 0.7.
C24_Witness ==
    /\ StatsOfU1
    /\ last.tests_completed = 3
    /\ SeqSum(last.individual_test_scores) = 2
    /\ last.average_score = 7

\* The rows of a snapshot with a non-empty answer, and those whose answer
\* is the correct one
AttemptedIn(rows) == {i \in 1..Len(rows) : rows[i].User_Answer # << >>}
CorrectIn(rows) == {i \in AttemptedIn(rows) : rows[i].User_Answer = rows[i].Correct_Answer}

\* C25: total questions attempted is the number of rows with a non-empty
\* answer in the latest snapshot of each test, and total correct the number
\* of those rows whose answer is correct.
C25_AttemptedAndCorrect ==
    StatsOfU1 =>
        LET w == excel["u1"]
            attempted == [test \in TestsArchived(w) |->
                             Cardinality(AttemptedIn(w[LatestSnapshot(w, test)]))]
            correct == [test \in TestsArchived(w) |->
                           Cardinality(CorrectIn(w[LatestSnapshot(w, test)]))]
        IN  /\ last.total_questions_attempted = SumOver(attempted, TestsArchived(w))
            /\ last.total_correct_answers = SumOver(correct, TestsArchived(w))

\* C26: when the generator is unavailable or its call fails, the analysis
\* of a user with archived data is answered as a success, with fallback
\* text filled from the section scores.
C26_FallbackNeverFails ==
    [][\A u \in Users, module_available, llm_available, call_ok, data_loaded \in BOOLEAN :
          (/\ u \in DOMAIN excel
           /\ ~(module_available /\ llm_available /\ call_ok)
           /\ get_ai_analysis(u, module_available, llm_available, call_ok, data_loaded)) =>
              /\ last'.status = 200
              /\ last'.message = "success"
              /\ last'.analysis.source \in {"basic", "programmatic"}
              /\ last'.analysis.section_scores
                    = section_scores_of(excel[u][max_sheet(excel[u])])]_vars

\* C27: the section maxima reported with the analysis are 3 times the
\* number of questions of the section in the analysed test, and the overall
\* maximum is 3 times the number of questions of that test.
C27_MaximaFromCatalogue ==
    ("u1" \in DOMAIN excel /\ last.message = "success") =>
        LET test_name == excel["u1"][last.latest_sheet][1].Test_Name
            test == load_test_data[MinOf({i \in 1..Len(load_test_data) :
                                             load_test_data[i].name = test_name})]
        IN  /\ \A sec \in DOMAIN last.section_max_scores :
                  last.section_max_scores[sec] = 3 * question_counts_of(test)[sec]
            /\ last.max_possible_score = 3 * total_questions(test_name)

--------------------------------------------------------------------------
\* Claims on the serverless application (specification SpecRoutes)

\* The request last answered was to a path of one of the required routes
ToRequiredRoute ==
    /\ last.message = "request"
    /\ \E i \in 1..Len(required_routes) :
          path_matches(Route(required_routes[i], {}, ""), last.path)

\* C30: the serverless application has every route the deployment test
\* requires: the test finds none missing, and no request to a path of a
\* required route is answered 404.
C30_RequiredRoutesExposed ==
    /\ last.message = "test_app_routes" => last.passed
    /\ ToRequiredRoute => last.status # 404 /\ last.endpoint # ""

\* GET /api/session/1 was answered by get_session.
C30_Witness ==
    /\ ToRequiredRoute
    /\ last.path = <<"api", "session", "1">>
    /\ last.status = 200
    /\ last.endpoint = "get_session"

--------------------------------------------------------------------------
\* Claims on the frame of the requests (specification Spec)

\* The sessions other than sid are as they were, and session sid is as it
\* was in every field but field
OnlyFieldChanged(sid, field) ==
    /\ DOMAIN active_sessions' = DOMAIN active_sessions
    /\ \A other \in DOMAIN active_sessions \ {sid} :
          active_sessions'[other] = active_sessions[other]
    /\ \A f \in DOMAIN active_sessions[sid] \ {field} :
          active_sessions'[sid][f] = active_sessions[sid][f]
    /\ DOMAIN active_sessions'[sid] = DOMAIN active_sessions[sid]

\* C40: an answer changes only the answers of its session, a bookmark only
\* its bookmarks and a flag only its flags: user, test name, time_started,
\* time_remaining and pause state of the session stay, and so does every
\* other session, whether the session is paused or not.
C40_MutationFrame ==
    [][\A sid \in SessionIds :
          /\ (/\ sid \in DOMAIN active_sessions
              /\ last'.message = "Answer submitted successfully"
              /\ submit_answer(sid, <<"VARC", 1>>, <<"A">>, 7))
                => OnlyFieldChanged(sid, "answers")
          /\ (/\ sid \in DOMAIN active_sessions
              /\ last'.message = "Bookmark added successfully"
              /\ toggle_bookmark(sid, <<"VARC", 1>>, "add"))
                => OnlyFieldChanged(sid, "bookmarks")
          /\ (/\ sid \in DOMAIN active_sessions
              /\ last'.message = "Flag updated successfully"
              /\ set_flag(sid, <<"VARC", 1>>, "red"))
                => OnlyFieldChanged(sid, "flags")]_vars

\* An answer was submitted to a session after it was paused, beside
\* another session in the store.
C40_Witness ==
    /\ last.message = "Answer submitted successfully"
    /\ Cardinality(DOMAIN active_sessions) > 1
    /\ \E sid \in DOMAIN active_sessions :
          /\ active_sessions[sid].is_paused
          /\ <<"VARC", 1>> \in DOMAIN active_sessions[sid].answers
          /\ active_sessions[sid].answers[<<"VARC", 1>>].timestamp = isoformat(now)
          /\ now > active_sessions[sid].paused_at

--------------------------------------------------------------------------
\* Claims on the sessions file and the pause (specification SpecStore)

\* The rows of a snapshot hold what session holds: each answer, each
\* bookmark and each flag in the row of its question
SnapshotHolds(rows, session) ==
    /\ \A q \in DOMAIN session.answers :
          \E i \in 1..Len(rows) :
             /\ rows[i].Question_ID = q
             /\ rows[i].User_Answer = session.answers[q].answer
    /\ \A k \in 1..Len(session.bookmarks) :
          \E i \in 1..Len(rows) :
             rows[i].Question_ID = session.bookmarks[k] /\ rows[i].Bookmark_Status
    /\ \A q \in DOMAIN session.flags :
          \E i \in 1..Len(rows) :
             rows[i].Question_ID = q /\ rows[i].Flag_Color = session.flags[q]

\* C31: when a pause is answered as done, the archive holds a snapshot of
\* the session written in that call, the session carries the pause marker
\* and the reduced time_remaining, and the snapshot holds the answers,
\* bookmarks and flags of the session.
C31_SnapshotBeforePauseReturns ==
    [][\A sid \in SessionIds :
          (/\ sid \in DOMAIN active_sessions
           /\ last'.message = "Test paused successfully"
           /\ pause_test(sid, TRUE)) =>
              LET session == active_sessions'[sid]
                  n == sheet_stamp(now)
              IN  /\ session.is_paused
                  /\ session.time_remaining
                        = active_sessions[sid].time_remaining
                          - elapsed_seconds(now, active_sessions[sid].time_started)
                  /\ session.username \in DOMAIN excel'
                  /\ n \in DOMAIN excel'[session.username]
                  /\ SnapshotHolds(excel'[session.username][n], session)]_vars

\* C39: after every request the sessions file is the flush of
\* active_sessions.
C39_FileEqualsStore == sessions_file = save_active_sessions(active_sessions)

--------------------------------------------------------------------------
\* Claims on the retry of a failed flush (specification SpecDisk)

\* C32: when the write of a periodic flush fails and the session stays in
\* active_sessions, the flush of the session stays armed: the task sleeps
\* again and will write at its next turn.
C32_FailedFlushStaysArmed ==
    [][\A task \in BagToSet(tasks) :
          (/\ task.sid \in DOMAIN active_sessions
           /\ excel' = excel
           /\ auto_save_session(task, FALSE)) =>
              /\ NumTasksOf(task.sid)' = NumTasksOf(task.sid)
              /\ \E again \in TasksOf(task.sid)' : again.wake > now]_vars

--------------------------------------------------------------------------
\* Specification SpecRace: answer requests to the session of InitEdit
\* interleave with each other, with manual saves and with the turns of the
\* auto_save_session task, on a disk that takes or refuses each write.

NextRace ==
    \/ \E d \in TickSteps : Tick(d)
    \/ start_test("u1", "T2")
    \/ \E sid \in SessionIds, q \in MarkedIds, sub \in Submissions :
          submit_answer(sid, q, sub.answer, sub.time_spent)
    \/ \E sid \in SessionIds, write_ok \in BOOLEAN : manual_save_session(sid, write_ok)
    \/ \E task \in BagToSet(tasks), write_ok \in BOOLEAN : auto_save_session(task, write_ok)

SpecRace == InitEdit /\ [][NextRace]_vars

--------------------------------------------------------------------------
\* Claims on concurrent answers (specification SpecRace)

\* The answer records of a store, by session and question
RecordKeys(store) == {k \in (DOMAIN store) \X QuestionIds : k[2] \in DOMAIN store[k[1]].answers}

\* A record whose answer and time_spent are those of one request
OfOneRequest(record) ==
    \E sub \in Submissions : record.answer = sub.answer /\ record.time_spent = sub.time_spent

\* Every record of store' that store did not hold was written whole by
\* the request of this step
NewRecordsWhole(before, after) ==
    \A k \in RecordKeys(after) :
        LET record == after[k[1]].answers[k[2]]
        IN  (k \notin RecordKeys(before) \/ before[k[1]].answers[k[2]] # record) =>
               /\ last'.message = "Answer submitted successfully"
               /\ OfOneRequest(record)
               /\ record.timestamp = isoformat(now)

\* The answered rows of a snapshot: sheet position and row index
AnsweredRows(book) ==
    UNION {{<<x, i>> : i \in {j \in DOMAIN book[x[1]][x[2]] :
                                 book[x[1]][x[2]][j].User_Answer # << >>}} :
           x \in Snapshots(book)}
RowAt(book, y) == book[y[1][1]][y[1][2]][y[2]]

\* Every answered row that book' holds and book did not is the record of
\* one session of the store, field by field
NewRowsWhole(before, after) ==
    \A y \in AnsweredRows(after) :
        LET row == RowAt(after, y)
        IN  (y \notin AnsweredRows(before) \/ RowAt(before, y) # row) =>
               \E sid \in DOMAIN active_sessions :
                  /\ row.Question_ID \in DOMAIN active_sessions[sid].answers
                  /\ LET record == active_sessions[sid].answers[row.Question_ID]
                     IN  /\ row.User_Answer = record.answer
                         /\ row.Time_Spent = record.time_spent
                         /\ row.Attempt_Timestamp = record.timestamp

\* C35: however the answer requests to one session interleave with each
\* other and with the saves, every answer record in active_sessions, in the
\* sessions file and in a snapshot of the archive has its answer, its
\* time_spent and its timestamp from one request.
C35_NoTornRecord ==
    /\ [](\A k \in RecordKeys(active_sessions) :
             OfOneRequest(active_sessions[k[1]].answers[k[2]]))
    /\ [](\A k \in RecordKeys(sessions_file) :
             OfOneRequest(sessions_file[k[1]].answers[k[2]]))
    /\ [](\A y \in AnsweredRows(excel) :
             \E sub \in Submissions :
                /\ RowAt(excel, y).User_Answer = sub.answer
                /\ RowAt(excel, y).Time_Spent = sub.time_spent)
    /\ [][/\ NewRecordsWhole(active_sessions, active_sessions')
          /\ NewRecordsWhole(sessions_file, sessions_file')
          /\ NewRowsWhole(excel, excel')]_vars

\* Two requests have answered VARC_1 of session 1, the second half a second
\* or more after the first; the record holds the second answer whole, and
\* so does a snapshot written after it.
C35_Witness ==
    /\ 1 \in DOMAIN active_sessions
    /\ now > 0
    /\ active_sessions[1].answers[<<"VARC", 1>>]
          = [answer |-> <<"a">>, correct_answer |-> <<"A">>, time_spent |-> 9,
             timestamp |-> isoformat(now), section |-> "VARC"]
    /\ sessions_file[1].answers = active_sessions[1].answers
    /\ \E y \in AnsweredRows(excel) :
          /\ RowAt(excel, y).Question_ID = <<"VARC", 1>>
          /\ RowAt(excel, y).User_Answer = <<"a">>
          /\ RowAt(excel, y).Time_Spent = 9
          /\ RowAt(excel, y).Attempt_Timestamp = isoformat(now)

--------------------------------------------------------------------------
\* The serverless variant (vercel_app_improved.py:224-370): its handlers
\* as functions of its own active_sessions.  Each gives the store after the
\* request and the response.

\* submit_answer: the positions <<test, section, qa>> of the catalogue
\* entries of test_name whose q_id is question_id
vercel_matches(test_name, question_id) ==
    LET tests == 1..Len(load_test_data)
        most_sections == CHOOSE n \in {Len(load_test_data[i].data) : i \in tests} :
                            \A i \in tests : Len(load_test_data[i].data) <= n
        lists == {load_test_data[i].data[j].qa_list :
                     i \in tests, j \in 1..most_sections}
        longest == CHOOSE n \in {Len(l) : l \in lists} : \A l \in lists : Len(l) <= n
    IN  {pos \in tests \X (1..most_sections) \X (1..longest) :
            /\ load_test_data[pos[1]].name = test_name
            /\ pos[3] <= Len(load_test_data[pos[1]].data[pos[2]].qa_list)
            /\ <<load_test_data[pos[1]].data[pos[2]].section,
                 load_test_data[pos[1]].data[pos[2]].qa_list[pos[3]].question_num>>
                  = question_id}

\* POST /api/start-test with uuid4() = session_id and datetime.now() = t
vercel_start_test(store, username, test_name, session_id, t) ==
    IF username = "" \/ test_name = ""
    THEN [store |-> store,
          response |-> Response(400, "Username and test name are required", 0, 0, 0, 0)]
    ELSE LET removed == {sid \in DOMAIN store :
                            store[sid].username = username /\ store[sid].is_paused = FALSE}
             created == [username |-> username,
                         test_name |-> test_name,
                         answers |-> EmptyDict,
                         bookmarks |-> << >>,
                         flags |-> EmptyDict,
                         time_started |-> t,
                         time_remaining |-> 7200,
                         is_paused |-> FALSE,
                         paused_at |-> -1]
         IN  [store |-> [sid \in (DOMAIN store \ removed) \cup {session_id} |->
                            IF sid = session_id THEN created ELSE store[sid]],
              response |-> Response(200, "Test session started", session_id, 7200, 0, 0)]

\* GET /api/session/{session_id} at time t
vercel_get_session(store, session_id, t) ==
    IF session_id \notin DOMAIN store
    THEN [store |-> store, response |-> Response(404, "Session not found", 0, 0, 0, 0)]
    ELSE LET elapsed == t - store[session_id].time_started
             remaining == store[session_id].time_remaining - IntDiv(elapsed, Res)
         IN  [store |-> store,
              response |-> Response(200, "session", 0,
                                    IF remaining > 0 THEN remaining ELSE 0, 0, 0)]

\* POST /api/submit-answer at time t
vercel_submit_answer(store, session_id, question_id, answer, time_spent, t) ==
    IF session_id \notin DOMAIN store
    THEN [store |-> store, response |-> Response(404, "Session not found", 0, 0, 0, 0)]
    ELSE LET found == vercel_matches(store[session_id].test_name, question_id)
             pos == CHOOSE x \in found : \A y \in found :
                       \/ x[1] < y[1]
                       \/ x[1] = y[1] /\ x[2] < y[2]
                       \/ x[1] = y[1] /\ x[2] = y[2] /\ x[3] <= y[3]
             entry == load_test_data[pos[1]].data[pos[2]]
             record == [answer |-> answer,
                        correct_answer |-> IF found = {} THEN << >>
                                           ELSE entry.qa_list[pos[3]].answer,
                        time_spent |-> time_spent,
                        timestamp |-> isoformat(t),
                        section |-> IF found = {} THEN "" ELSE entry.section]
             answers == store[session_id].answers
         IN  [store |-> [store EXCEPT ![session_id].answers =
                            [q \in DOMAIN answers \cup {question_id} |->
                                IF q = question_id THEN record ELSE answers[q]]],
              response |-> Response(200, "Answer submitted successfully", 0, 0, 0, 0)]

\* Mutant of vercel_toggle_bookmark: add appends without looking
vercel_toggle_bookmark_appends(store, session_id, question_id, action) ==
    IF session_id \notin DOMAIN store
    THEN [store |-> store, response |-> Response(404, "Session not found", 0, 0, 0, 0)]
    ELSE LET bookmarks == store[session_id].bookmarks
             present == \E i \in 1..Len(bookmarks) : bookmarks[i] = question_id
             after == IF action = "add" THEN bookmarks \o <<question_id>>
                      ELSE IF action = "remove" /\ present THEN Tail(bookmarks)
                      ELSE bookmarks
         IN  [store |-> [store EXCEPT ![session_id].bookmarks = after],
              response |-> Response(200, "Bookmark " \o action \o "ed successfully", 0, 0, 0, 0)]

\* POST /api/bookmark
vercel_toggle_bookmark(store, session_id, question_id, action) ==
    IF session_id \notin DOMAIN store
    THEN [store |-> store, response |-> Response(404, "Session not found", 0, 0, 0, 0)]
    ELSE LET bookmarks == store[session_id].bookmarks
             present == \E i \in 1..Len(bookmarks) : bookmarks[i] = question_id
             first == CHOOSE i \in 1..Len(bookmarks) :
                         bookmarks[i] = question_id /\ \A j \in 1..(i - 1) : bookmarks[j] # question_id
             after == IF action = "add" /\ ~present THEN bookmarks \o <<question_id>>
                      ELSE IF action = "remove" /\ present
                      THEN [i \in 1..(Len(bookmarks) - 1) |->
                               IF i < first THEN bookmarks[i] ELSE bookmarks[i + 1]]
                      ELSE bookmarks
         IN  [store |-> [store EXCEPT ![session_id].bookmarks = after],
              response |-> Response(200, "Bookmark " \o action \o "ed successfully", 0, 0, 0, 0)]

\* POST /api/flag
vercel_set_flag(store, session_id, question_id, color) ==
    IF session_id \notin DOMAIN store
    THEN [store |-> store, response |-> Response(404, "Session not found", 0, 0, 0, 0)]
    ELSE LET flags == store[session_id].flags
             after == IF color = "none"
                      THEN [q \in DOMAIN flags \ {question_id} |-> flags[q]]
                      ELSE [q \in DOMAIN flags \cup {question_id} |->
                               IF q = question_id THEN color ELSE flags[q]]
         IN  [store |-> [store EXCEPT ![session_id].flags = after],
              response |-> Response(200, "Flag updated successfully", 0, 0, 0, 0)]

--------------------------------------------------------------------------
\* Specification SpecCore: the requests that both servers serve, from the
\* empty store: start (also without a username, also for a test that is
\* not in the catalogue), getState, answer, bookmark and flag, for every
\* session id, while the clock advances.

CoreUsers == {"u1", "u2", ""}
CoreTests == {"T1", UnknownTest}
CoreColors == {"red", "none"}

NextCore ==
    \/ \E d \in TickSteps : Tick(d)
    \/ \E u \in CoreUsers, t \in CoreTests : start_test(u, t)
    \/ \E sid \in SessionIds : get_session(sid)
    \/ \E sid \in SessionIds, sub \in Submissions :
          submit_answer(sid, <<"VARC", 1>>, sub.answer, sub.time_spent)
    \/ \E sid \in SessionIds, action \in BookmarkActions :
          toggle_bookmark(sid, <<"VARC", 1>>, action)
    \/ \E sid \in SessionIds, color \in CoreColors :
          set_flag(sid, <<"VARC", 1>>, color)

SpecCore == Init /\ [][NextCore]_vars

--------------------------------------------------------------------------
\* Claims on the server variants (specification SpecCore)

\* The request of this step was served by app.py
ServedStep == nOps' = nOps + 1

\* C38: from equal session maps, each start, getState, answer, bookmark and
\* flag request leaves in app.py's active_sessions the map that the handler
\* of vercel_app_improved.py leaves for the same request, session id and
\* clock, and both answer with the same response.
C38_SameSessionCore ==
    [][/\ \A u \in CoreUsers, t \in CoreTests :
             (ServedStep /\ last'.message \in {"Test session started",
                                               "Username and test name are required"}
                         /\ start_test(u, t)) =>
                 LET v == vercel_start_test(active_sessions, u, t, nextId, now)
                 IN  active_sessions' = v.store /\ last' = v.response
       /\ \A sid \in SessionIds :
             (ServedStep /\ last'.message \in {"session", "Session not found"}
                         /\ get_session(sid)) =>
                 LET v == vercel_get_session(active_sessions, sid, now)
                 IN  active_sessions' = v.store /\ last' = v.response
       /\ \A sid \in SessionIds, sub \in Submissions :
             (ServedStep /\ last'.message \in {"Answer submitted successfully",
                                               "Session not found"}
                         /\ submit_answer(sid, <<"VARC", 1>>, sub.answer, sub.time_spent)) =>
                 LET v == vercel_submit_answer(active_sessions, sid, <<"VARC", 1>>,
                                               sub.answer, sub.time_spent, now)
                 IN  active_sessions' = v.store /\ last' = v.response
       /\ \A sid \in SessionIds, action \in BookmarkActions :
             (ServedStep /\ last'.message \in {"Bookmark " \o action \o "ed successfully",
                                               "Session not found"}
                         /\ toggle_bookmark(sid, <<"VARC", 1>>, action)) =>
                 LET v == vercel_toggle_bookmark(active_sessions, sid, <<"VARC", 1>>, action)
                 IN  active_sessions' = v.store /\ last' = v.response
       /\ \A sid \in SessionIds, color \in CoreColors :
             (ServedStep /\ last'.message \in {"Flag updated successfully",
                                               "Session not found"}
                         /\ set_flag(sid, <<"VARC", 1>>, color)) =>
                 LET v == vercel_set_flag(active_sessions, sid, <<"VARC", 1>>, color)
                 IN  active_sessions' = v.store /\ last' = v.response]_vars

\* A second start of u1 has replaced u1's first session; the new session
\* holds an answer to VARC_1, which is then bookmarked.
C38_Witness ==
    /\ DOMAIN active_sessions = {2}
    /\ active_sessions[2].username = "u1"
    /\ <<"VARC", 1>> \in DOMAIN active_sessions[2].answers
    /\ active_sessions[2].answers[<<"VARC", 1>>].answer = <<"a">>
    /\ active_sessions[2].bookmarks = <<<<"VARC", 1>>>>
    /\ last.message = "Bookmark added successfully"

--------------------------------------------------------------------------
\* Specification SpecInsights: analysis and report.  u1 has a live session
\* on T1 or T2 with any of the submissions below stored for VARC_1 and
\* for QA_1, for one of them or for neither; the session is paused and
\* analysed, and the report of u1 and of u2 is downloaded, which saves the
\* session first, on a disk that takes or refuses the write, while the
\* clock advances.

InsightSubmissions ==
    {[answer |-> <<"A">>, time_spent |-> 7],
     [answer |-> <<"a">>, time_spent |-> 7],
     [answer |-> <<" ">>, time_spent |-> 9],
     [answer |-> << >>, time_spent |-> 7],
     [answer |-> <<"A">>, time_spent |-> 0]}

InitInsights ==
    /\ \E test_name \in TestNames, qs \in SUBSET MarkedIds :
         \E given \in [qs -> InsightSubmissions] :
            LET session == new_session("u1", test_name, 0)
                store == DictSet(EmptyDict, 1,
                            [session EXCEPT !.answers =
                                [q \in qs |-> answer_record(session, q, given[q].answer,
                                                            given[q].time_spent, 0)]])
            IN  /\ active_sessions = store
                /\ sessions_file = save_active_sessions(store)
    /\ nextId = 2
    /\ now = 0
    /\ nTicks = 0
    /\ nOps = 0
    /\ excel = EmptyDict
    /\ tasks = auto_save_task(1, 0)
    /\ last = Response(200, "Answer submitted successfully", 0, 0, 0, 0)
    /\ trail = DictSet(EmptyDict, 1, <<<<"start", 0>>>>)

NextInsights ==
    \/ Tick(Res)
    \/ pause_test(1, TRUE)
    \/ \E llm_available \in BOOLEAN : get_ai_analysis("u1", TRUE, llm_available, TRUE, TRUE)
    \/ \E u \in Users, write_ok \in BOOLEAN : download_test_report(u, write_ok)

SpecInsights == InitInsights /\ [][NextInsights]_vars

--------------------------------------------------------------------------
\* Claims on analysis and report (specification SpecInsights)

\* An analysis of u1 has been answered; the rows of the sheet it read, as
\* the archive holds them
Analysed == last.message = "success"
AnalysedRows == excel["u1"][last.latest_sheet]

\* C33: for the snapshot that was analysed and every section, the number
\* of questions the performance insights count as correct is the number of
\* rows of the section with marks 3, and attempted is at least correct;
\* the analysis leaves the archive as it was.
C33_InsightsAgreeWithMarks ==
    /\ [](Analysed =>
            \A sec \in {Sections[k] : k \in 1..3} :
               LET found == last.user_performance_data.performance_insights.section_analysis[sec]
               IN  /\ found.correct =
                        Cardinality({i \in 1..Len(AnalysedRows) :
                                        /\ AnalysedRows[i].Section = sec
                                        /\ AnalysedRows[i].Marks_Obtained = 3})
                   /\ found.attempted >= found.correct)
    /\ [][\A llm_available \in BOOLEAN :
             get_ai_analysis("u1", TRUE, llm_available, TRUE, TRUE) => excel' = excel]_vars

\* C34: the total time is the sum of time_spent over the records with
\* time_spent > 0, the attempted count is the number of those same
\* records, and the average per question is the one divided by the other,
\* 0 when the count is 0.
C34_AverageOverSameRecords ==
    Analysed =>
        LET records == last.user_performance_data.question_data
            found == last.user_performance_data.time_analysis
            with_time == {i \in 1..Len(records) : records[i].Time_Spent > 0}
            total == SumOver([i \in with_time |-> records[i].Time_Spent], with_time)
        IN  /\ found.total_time = total
            /\ found.attempted_count = Cardinality(with_time)
            /\ found.avg_per_question =
                  IF with_time = {} THEN Zero ELSE Fraction(total, Cardinality(with_time))

\* C37: the test that the analysis names, and the catalogue test and the
\* test name that the report is made from, are the Test_Name of the rows of
\* the latest snapshot.
C37_TestOfTheSnapshot ==
    /\ Analysed =>
          last.user_performance_data.test_name = AnalysedRows[1].Test_Name
    /\ (last.message = "report") =>
          /\ last.test_data = excel[last.username][last.latest_sheet][1].Test_Name
          /\ last.test_name = excel[last.username][last.latest_sheet][1].Test_Name

====
